---- MODULE Spec2Model ----
(***************************************************************************)
(* Lite custom operator binding layer                                      *)
(* (include/onnxruntime/core/session/onnxruntime_lite_custom_op.h).        *)
(*                                                                         *)
(* The model follows one operator descriptor (OrtLiteCustomFunc<Args...>)  *)
(* through its life: construction (ParseArgs), CreateKernel, KernelCompute *)
(* (CreateTuple, then the user function working on the tensor views) and   *)
(* KernelDestroy.  The host runtime is the environment: it picks the       *)
(* KernelInfo counts, the kernel context and its tensors' shapes.          *)
(***************************************************************************)
EXTENDS Integers, Sequences, FiniteSets, TLC

VARIABLES
    op,      \* the descriptor: OrtLiteCustomFunc<Args...>
    kernel,  \* the Kernel made by CreateKernel, or NoKernel
    inv,     \* the KernelCompute invocation in progress (its locals and the host context)
    ret      \* what the last call made by the host or by the user function returned

vars == <<op, kernel, inv, ret>>

(***************************************************************************)
(* Bounds of the model.                                                    *)
(***************************************************************************)
MaxParams == 2        \* longest parameter list of the lifecycle and schema specifications
MaxViewParams == 1    \* longest parameter list of the view specification
MaxAllocs == 2        \* most Allocate calls the user function makes in one invocation
MaxStringLen == 2     \* longest string of a host string tensor, in bytes
MaxStringOutputs == 1 \* most SetStringOutput calls the user function makes in one invocation
MaxCreates == 2       \* CreateKernel calls the host makes on one descriptor
MaxComputes == 2      \* KernelCompute calls the host makes, on threads of their own

(***************************************************************************)
(* Values.                                                                 *)
(***************************************************************************)
CPU == "CPUExecutionProvider"
Providers == {CPU, "CUDAExecutionProvider"}

ORT_INVALID_ARGUMENT == "ORT_INVALID_ARGUMENT"
ORT_RUNTIME_EXCEPTION == "ORT_RUNTIME_EXCEPTION"

NoKernel == [none |-> "kernel"]
NoError == [none |-> "error"]
NoRet == [none |-> "ret"]
nullopt == [has_value |-> FALSE]             \* an empty std::optional
Some(v) == [has_value |-> TRUE, value |-> v]  \* an engaged std::optional
NullValue == [none |-> "OrtValue"]           \* a default-constructed ConstValue
nullptr == [none |-> "pointer"]
Throw(code, msg) == [code |-> code, msg |-> msg]

\* Shapes the host gives its input tensors, and shapes the user function allocates.
InShapes == {<<>>, <<0>>, <<1>>, <<2>>, <<1, 1>>}
OutShapes == {<<1>>, <<1, 2>>}

\* The element types of the lifecycle specifications and of the schema specification.
DataTypes == {"float"}
SchemaDataTypes == {"float", "int64_t", "std::string"}

\* The shapes a parameter can take (the std::is_same tests of CreateTuple and ParseArgs).
InputTensorKinds == {"const Tensor<T>*", "const Tensor<T>&", "std::optional<const Tensor<T>*>"}
InputSpanKinds == {"const Span<T>*", "const Span<T>&", "std::optional<const Span<T>*>"}
InputScalarKinds == {"T", "std::optional<T>"}
OutputKinds == {"Tensor<T>*", "Tensor<T>&", "std::optional<Tensor<T>*>"}
InputKinds == InputTensorKinds \cup InputSpanKinds \cup InputScalarKinds
OptionalKinds == {"std::optional<const Tensor<T>*>", "std::optional<const Span<T>*>",
                  "std::optional<T>", "std::optional<Tensor<T>*>"}

ContextParam == [kind |-> "OrtKernelContext*", dt |-> "void"]

ParamTypes(dts) == {ContextParam} \cup [kind : InputKinds \cup OutputKinds, dt : dts]

ArgLists(dts, n) == UNION {[1..m -> ParamTypes(dts)] : m \in 0..n}

IsInput(T) == T.kind \in InputKinds
IsOutput(T) == T.kind \in OutputKinds
IsOptional(T) == T.kind \in OptionalKinds
IsSpanOrScalar(T) == T.kind \in InputSpanKinds \cup InputScalarKinds

(***************************************************************************)
(* The host: a kernel context is the sequence of its input tensors.        *)
(* Element k of the buffer at pointer p is the symbolic value HostElem.    *)
(***************************************************************************)
Contexts(n) == UNION {[1..m -> [shape : InShapes]] : m \in 0..n}

GetInputCount(ctx) == Len(ctx)
GetInput(ctx, indice) == [input |-> indice]
GetShape(ctx, value) == ctx[value.input + 1].shape
HostElem(p, k) == [at |-> p, k |-> k]

\* GetTensorRawData on a value handle.  On the null handle of a view that never
\* fetched an input the call is outside the host's contract: the host reports an
\* error or hands back no buffer.
GetTensorRawData(value) ==
    IF value = NullValue
    THEN {[error |-> Throw("ORT_FAIL", "host: invalid value handle"), value |-> nullptr],
          [error |-> NoError, value |-> nullptr]}
    ELSE {[error |-> NoError, value |-> [buffer |-> "input", index |-> value.input]]}

\* KernelContext::GetOutput(indice, shape).GetTensorMutableData(): the host
\* materializes the output, or fails and its error is thrown.
GetOutput(indice, shape) ==
    {[error |-> NoError, value |-> [buffer |-> "output", index |-> indice]],
     [error |-> Throw("ORT_FAIL", "host: cannot provide the output"), value |-> nullptr]}

(***************************************************************************)
(* Custom::Tensor<T>, the numeric tensor view.  An operation returns the   *)
(* set of its possible results [error, value, self]: self is the view      *)
(* after the call.                                                         *)
(***************************************************************************)
Product(shape) ==
    LET RECURSIVE Mul(_)
        Mul(k) == IF k = 0 THEN 1 ELSE shape[k] * Mul(k - 1)
    IN Mul(Len(shape))

\* A faulty constructor: the shape of an input is not cached.
TensorNotCachingShape(ctx, indice, is_input, dt) ==
    LET self == [dt |-> dt, indice_ |-> indice, is_input_ |-> is_input,
                 shape_ |-> nullopt, const_value_ |-> NullValue, data_ |-> nullptr,
                 span_ |-> [data_ |-> nullptr, size_ |-> 0]]
    IN IF is_input
       THEN IF indice >= GetInputCount(ctx)
            THEN [error |-> Throw(ORT_INVALID_ARGUMENT, "invalid indice for Ort::Custom::Tensor"),
                  self |-> self, calls |-> <<>>]
            ELSE [error |-> NoError,
                  self |-> [self EXCEPT !.const_value_ = GetInput(ctx, indice)],
                  calls |-> <<indice>>]
       ELSE [error |-> NoError, self |-> self, calls |-> <<>>]

\* A faulty constructor: an invalid index is reported as a RuntimeException.
TensorWrongErrorCode(ctx, indice, is_input, dt) ==
    LET self == [dt |-> dt, indice_ |-> indice, is_input_ |-> is_input,
                 shape_ |-> nullopt, const_value_ |-> NullValue, data_ |-> nullptr,
                 span_ |-> [data_ |-> nullptr, size_ |-> 0]]
    IN IF is_input
       THEN IF indice >= GetInputCount(ctx)
            THEN [error |-> Throw(ORT_RUNTIME_EXCEPTION, "invalid indice for Ort::Custom::Tensor"),
                  self |-> self, calls |-> <<>>]
            ELSE LET const_value == GetInput(ctx, indice)
                 IN [error |-> NoError,
                     self |-> [self EXCEPT !.const_value_ = const_value,
                                           !.shape_ = Some(GetShape(ctx, const_value))],
                     calls |-> <<indice>>]
       ELSE [error |-> NoError, self |-> self, calls |-> <<>>]

\* Tensor(ctx, indice, is_input): the constructor.  calls: the host inputs fetched.
Tensor(ctx, indice, is_input, dt) ==
    LET self == [dt |-> dt, indice_ |-> indice, is_input_ |-> is_input,
                 shape_ |-> nullopt, const_value_ |-> NullValue, data_ |-> nullptr,
                 span_ |-> [data_ |-> nullptr, size_ |-> 0]]
    IN IF is_input
       THEN IF indice >= GetInputCount(ctx)
            THEN [error |-> Throw(ORT_INVALID_ARGUMENT, "invalid indice for Ort::Custom::Tensor"),
                  self |-> self, calls |-> <<>>]
            ELSE LET const_value == GetInput(ctx, indice)
                 IN [error |-> NoError,
                     self |-> [self EXCEPT !.const_value_ = const_value,
                                           !.shape_ = Some(GetShape(ctx, const_value))],
                     calls |-> <<indice>>]
       ELSE [error |-> NoError, self |-> self, calls |-> <<>>]

Shape(self) ==
    IF ~self.shape_.has_value
    THEN [error |-> Throw(ORT_RUNTIME_EXCEPTION, "tensor shape is not yet initialized"),
          value |-> nullopt]
    ELSE [error |-> NoError, value |-> self.shape_]

NumberOfElement(self) ==
    IF self.shape_.has_value THEN Product(self.shape_.value) ELSE 0

Data(self) == GetTensorRawData(self.const_value_)

\* A faulty Allocate without the test of data_: every call asks the host.
AllocateAlwaysAsking(self, shape) ==
    {IF o.error = NoError
     THEN [error |-> NoError, value |-> o.value,
           self |-> [self EXCEPT !.shape_ = Some(shape), !.data_ = o.value],
           calls |-> <<[indice |-> self.indice_, shape |-> shape]>>]
     ELSE [error |-> o.error, value |-> nullptr,
           self |-> [self EXCEPT !.shape_ = Some(shape)],
           calls |-> <<[indice |-> self.indice_, shape |-> shape]>>]
     : o \in GetOutput(self.indice_, shape)}

\* Allocate(shape): calls: the GetOutput requests made of the host.
Allocate(self, shape) ==
    LET s1 == [self EXCEPT !.shape_ = Some(shape)]
    IN IF s1.data_ = nullptr
       THEN {IF o.error = NoError
             THEN [error |-> NoError, value |-> o.value,
                   self |-> [s1 EXCEPT !.shape_ = Some(shape), !.data_ = o.value],
                   calls |-> <<[indice |-> s1.indice_, shape |-> shape]>>]
             ELSE [error |-> o.error, value |-> nullptr,
                   self |-> [s1 EXCEPT !.shape_ = Some(shape)],
                   calls |-> <<[indice |-> s1.indice_, shape |-> shape]>>]
             : o \in GetOutput(s1.indice_, shape)}
       ELSE {[error |-> NoError, value |-> s1.data_, self |-> s1, calls |-> <<>>]}

\* A faulty AsSpan: any shape of rank 1 or more passes.
AsSpanAnyRank(self) ==
    IF ~self.shape_.has_value \/ Len(self.shape_.value) < 1
    THEN {[error |-> Throw(ORT_RUNTIME_EXCEPTION,
                           "invalid shape while trying to get a span out of Ort::Custom::Tensor"),
           value |-> self.span_, self |-> self]}
    ELSE {IF d.error # NoError
          THEN [error |-> d.error, value |-> self.span_, self |-> self]
          ELSE LET span == [data_ |-> d.value, size_ |-> self.shape_.value[1]]
               IN [error |-> NoError, value |-> span, self |-> [self EXCEPT !.span_ = span]]
          : d \in Data(self)}

AsSpan(self) ==
    IF ~self.shape_.has_value \/ Len(self.shape_.value) # 1
    THEN {[error |-> Throw(ORT_RUNTIME_EXCEPTION,
                           "invalid shape while trying to get a span out of Ort::Custom::Tensor"),
           value |-> self.span_, self |-> self]}
    ELSE {IF d.error # NoError
          THEN [error |-> d.error, value |-> self.span_, self |-> self]
          ELSE LET span == [data_ |-> d.value, size_ |-> self.shape_.value[1]]
               IN [error |-> NoError, value |-> span, self |-> [self EXCEPT !.span_ = span]]
          : d \in Data(self)}

\* A faulty AsScalar: the element count is tested, not the rank and the length.
AsScalarByElementCount(self) ==
    IF ~self.shape_.has_value \/ NumberOfElement(self) # 1
    THEN {[error |-> Throw(ORT_RUNTIME_EXCEPTION,
                           "invalid shape while trying to get a scalar from Ort::Custom::Tensor"),
           value |-> nullptr, self |-> self]}
    ELSE {IF d.error # NoError
          THEN [error |-> d.error, value |-> nullptr, self |-> self]
          ELSE [error |-> NoError, value |-> HostElem(d.value, 0), self |-> self]
          : d \in Data(self)}

AsScalar(self) ==
    IF ~self.shape_.has_value \/ Len(self.shape_.value) # 1 \/ self.shape_.value[1] # 1
    THEN {[error |-> Throw(ORT_RUNTIME_EXCEPTION,
                           "invalid shape while trying to get a scalar from Ort::Custom::Tensor"),
           value |-> nullptr, self |-> self]}
    ELSE {IF d.error # NoError
          THEN [error |-> d.error, value |-> nullptr, self |-> self]
          ELSE [error |-> NoError, value |-> HostElem(d.value, 0), self |-> self]
          : d \in Data(self)}

\* Span<T>: size() and operator[].
SpanSize(span) == span.size_
SpanAt(span, indice) == HostElem(span.data_, indice)

(***************************************************************************)
(* String tensors.  A byte is a number, 0 the NUL byte; a string is a      *)
(* sequence of bytes.  The host keeps a string tensor as its shape and     *)
(* its strings, and hands the strings out packed: the bytes one after the  *)
(* other, and the offset at which each string starts.                      *)
(***************************************************************************)
NUL == 0
Bytes == {NUL, 97}
Strings == UNION {[1..n -> Bytes] : n \in 0..MaxStringLen}
StringShapes == {<<>>, <<0>>, <<2>>, <<2, 1>>}
StringTensors ==
    UNION {[shape : {d}, strings : [1..Product(d) -> Strings]] : d \in StringShapes}
StringContexts == {<<>>} \cup {<<t>> : t \in StringTensors}

RECURSIVE Concat(_)
Concat(strings) ==
    IF strings = <<>> THEN <<>> ELSE Head(strings) \o Concat(Tail(strings))

\* const_value.GetStringTensorDataLength(): the bytes of all the strings together.
GetStringTensorDataLength(ctx, value) == Len(Concat(ctx[value.input + 1].strings))

\* const_value.GetStringTensorContent(buffer, length, offsets, count).
GetStringTensorContent(ctx, value) ==
    LET strings == ctx[value.input + 1].strings
    IN [chars |-> Concat(strings),
        offsets |-> [i \in 1..Len(strings) |-> Len(Concat(SubSeq(strings, 1, i - 1)))]]

\* A buffer of size bytes, '\0' throughout, after the host has written content at its start.
Filled(size, content) ==
    [i \in 1..size |-> IF i <= Len(content) THEN content[i] ELSE NUL]

\* The C string at offset off of chars: the bytes up to the first NUL.
RECURSIVE CString(_, _)
CString(chars, off) ==
    IF off + 1 > Len(chars) \/ chars[off + 1] = NUL THEN <<>>
    ELSE <<chars[off + 1]>> \o CString(chars, off + 1)

\* The loop of Tensor<std::string>::Tensor, from i down to 0: a NUL is written
\* where the string after i starts, then input_strings_[i] is assigned the C
\* string at offsets[i].
RECURSIVE DecodeStrings(_, _, _, _, _)
DecodeStrings(chars, offsets, i, upper_bound, input_strings) ==
    LET cut == IF i < upper_bound THEN [chars EXCEPT ![offsets[i + 2] + 1] = NUL] ELSE chars
        decoded == [input_strings EXCEPT ![i + 1] = CString(cut, offsets[i + 1])]
    IN IF i = 0 THEN decoded
       ELSE DecodeStrings(cut, offsets, i - 1, upper_bound, decoded)

\* Tensor<std::string>::Tensor(ctx, indice, is_input).
TensorString(ctx, indice, is_input) ==
    LET self == [dt |-> "std::string", indice_ |-> indice, is_input_ |-> is_input,
                 shape_ |-> nullopt, input_strings_ |-> <<>>]
    IN IF is_input
       THEN IF indice >= GetInputCount(ctx)
            THEN [error |-> Throw(ORT_INVALID_ARGUMENT, "invalid indice for Ort::Custom::Tensor"),
                  self |-> self, calls |-> <<>>]
            ELSE LET const_value == GetInput(ctx, indice)
                     shape == GetShape(ctx, const_value)
                     num_chars == GetStringTensorDataLength(ctx, const_value)
                     num_strings == Product(shape)
                     content == GetStringTensorContent(ctx, const_value)
                     chars == Filled(num_chars + 1, content.chars)
                 IN [error |-> NoError,
                     self |-> [self EXCEPT
                                 !.shape_ = Some(shape),
                                 !.input_strings_ =
                                     IF num_strings = 0 THEN <<>>
                                     ELSE DecodeStrings(chars, content.offsets,
                                                        num_strings - 1, num_strings - 1,
                                                        [k \in 1..num_strings |-> <<>>])],
                     calls |-> <<indice>>]
       ELSE [error |-> NoError, self |-> self, calls |-> <<>>]

\* A std::string_view: a start in the buffer chars_ of its view object, and a size.
StringView(offset, size) == [offset |-> offset, size |-> size]
\* The bytes a std::string_view shows.
ViewBytes(chars, sv) == SubSeq(chars, sv.offset + 1, sv.offset + sv.size)

\* A faulty constructor: the last string is bounded by the end of the buffer,
\* not by the number of characters.
TensorStringViewToBufferEnd(ctx, indice, is_input) ==
    LET self == [dt |-> "std::string_view", indice_ |-> indice, is_input_ |-> is_input,
                 shape_ |-> nullopt, chars_ |-> <<>>, input_string_views_ |-> <<>>]
    IN IF is_input
       THEN IF indice >= GetInputCount(ctx)
            THEN [error |-> Throw(ORT_INVALID_ARGUMENT, "invalid indice for Ort::Custom::Tensor"),
                  self |-> self, calls |-> <<>>]
            ELSE LET const_value == GetInput(ctx, indice)
                     shape == GetShape(ctx, const_value)
                     num_chars == GetStringTensorDataLength(ctx, const_value)
                     num_strings == Product(shape)
                     content == GetStringTensorContent(ctx, const_value)
                     offsets == Append(content.offsets, num_chars + 1)
                 IN [error |-> NoError,
                     self |-> [self EXCEPT
                                 !.shape_ = Some(shape),
                                 !.chars_ = IF num_strings = 0 THEN Filled(num_chars + 1, <<>>)
                                            ELSE Filled(num_chars + 1, content.chars),
                                 !.input_string_views_ =
                                     IF num_strings = 0 THEN <<>>
                                     ELSE [i \in 1..num_strings |->
                                             StringView(offsets[i], offsets[i + 1] - offsets[i])]],
                     calls |-> <<indice>>]
       ELSE [error |-> NoError, self |-> self, calls |-> <<>>]

\* Tensor<std::string_view>::Tensor(ctx, indice, is_input).
TensorStringView(ctx, indice, is_input) ==
    LET self == [dt |-> "std::string_view", indice_ |-> indice, is_input_ |-> is_input,
                 shape_ |-> nullopt, chars_ |-> <<>>, input_string_views_ |-> <<>>]
    IN IF is_input
       THEN IF indice >= GetInputCount(ctx)
            THEN [error |-> Throw(ORT_INVALID_ARGUMENT, "invalid indice for Ort::Custom::Tensor"),
                  self |-> self, calls |-> <<>>]
            ELSE LET const_value == GetInput(ctx, indice)
                     shape == GetShape(ctx, const_value)
                     num_chars == GetStringTensorDataLength(ctx, const_value)
                     num_strings == Product(shape)
                     content == GetStringTensorContent(ctx, const_value)
                     offsets == Append(content.offsets, num_chars)
                 IN [error |-> NoError,
                     self |-> [self EXCEPT
                                 !.shape_ = Some(shape),
                                 !.chars_ = IF num_strings = 0 THEN Filled(num_chars + 1, <<>>)
                                            ELSE Filled(num_chars + 1, content.chars),
                                 !.input_string_views_ =
                                     IF num_strings = 0 THEN <<>>
                                     ELSE [i \in 1..num_strings |->
                                             StringView(offsets[i], offsets[i + 1] - offsets[i])]],
                     calls |-> <<indice>>]
       ELSE [error |-> NoError, self |-> self, calls |-> <<>>]

\* Data() of the two string views.
StringData(self) ==
    IF self.dt = "std::string" THEN self.input_strings_ ELSE self.input_string_views_

\* output.FillStringTensor(raw.data(), raw.size()): the host copies the C string
\* at each pointer, and refuses a count that is not the tensor's element count.
FillStringTensor(dims, raw) ==
    IF Len(raw) # Product(dims)
    THEN [error |-> Throw(ORT_INVALID_ARGUMENT, "host: input array doesn't equal tensor size"),
          value |-> nullopt]
    ELSE [error |-> NoError,
          value |-> Some([shape |-> dims,
                          strings |-> [i \in 1..Len(raw) |-> CString(raw[i], 0)]])]

\* SetStringOutput(ss, dims) of the two string views.  s.data() is the bytes of
\* s followed by a NUL.  value: the string tensor the host holds afterwards.
SetStringOutput(self, ss, dims) ==
    LET shaped == [self EXCEPT !.shape_ = Some(dims)]
        raw == [i \in 1..Len(ss) |-> Append(ss[i], NUL)]
    IN {IF output.error # NoError
        THEN [error |-> output.error, value |-> nullopt, self |-> shaped,
              calls |-> <<[indice |-> self.indice_, shape |-> dims]>>]
        ELSE LET filled == FillStringTensor(dims, raw)
             IN [error |-> filled.error, value |-> filled.value, self |-> shaped,
                 calls |-> <<[indice |-> self.indice_, shape |-> dims]>>]
        : output \in GetOutput(self.indice_, dims)}

\* std::make_unique<Custom::Tensor<data_type>>(context, indice, is_input): the
\* specialization of Tensor for data_type.
MakeTensor(ctx, indice, is_input, dt) ==
    CASE dt = "std::string" -> TensorString(ctx, indice, is_input)
      [] dt = "std::string_view" -> TensorStringView(ctx, indice, is_input)
      [] OTHER -> Tensor(ctx, indice, is_input, dt)

(***************************************************************************)
(* OrtLiteCustomOp::CreateTuple.  The running state st of one tuple        *)
(* construction holds the tensors vector, and as history the host inputs   *)
(* fetched and one trace entry per parameter whose overload body ran:      *)
(* the template arguments ith_input and ith_output it was instantiated     *)
(* with, and the place in tensors of the view it pushed (0: none).         *)
(* The result is the set of final states; tuple is the std::tuple built,   *)
(* error the exception that left the construction.                         *)
(***************************************************************************)
EmptyTuple == [tensors |-> <<>>, tuple |-> <<>>, fetched |-> <<>>, trace |-> <<>>,
               error |-> NoError]

Entry(ith_input, ith_output, view) ==
    [ith_input |-> ith_input, ith_output |-> ith_output, view |-> view]

\* tensors.push_back(std::make_unique<Custom::Tensor<data_type>>(...)).
PushBack(st, ith_input, ith_output, t) ==
    [st EXCEPT !.tensors = Append(@, t.self),
               !.fetched = @ \o t.calls,
               !.trace = Append(@, Entry(ith_input, ith_output, Len(st.tensors) + 1))]

\* No view is made: a context handle or an empty optional.
Skip(st, ith_input, ith_output) ==
    [st EXCEPT !.trace = Append(@, Entry(ith_input, ith_output, 0))]

\* What one overload does before it recurses: st after its own work, the tuple
\* element current, and the template arguments of CreateTuple<..., Ts...> it goes on with.
Recurse(st, current, ith_input, ith_output) ==
    [st |-> st, current |-> current, ith_input |-> ith_input, ith_output |-> ith_output]

\* The overload throws.
Raise(st, ith_input, ith_output, error) ==
    Recurse([st EXCEPT !.trace = Append(@, Entry(ith_input, ith_output, 0)), !.error = error],
            [arg |-> "none"], ith_input, ith_output)

\* A faulty context-handle overload: the handle consumes an input index.
CreateTupleContextCountingHandle(ith_input, ith_output, context, st) ==
    {Recurse(Skip(st, ith_input, ith_output), [arg |-> "context"], ith_input + 1, ith_output)}

\* T = OrtKernelContext*.
CreateTupleContext(ith_input, ith_output, context, st) ==
    {Recurse(Skip(st, ith_input, ith_output), [arg |-> "context"], ith_input, ith_output)}

\* T = const Custom::Tensor<data_type>* and const Custom::Tensor<data_type>&.
CreateTupleInputTensor(ith_input, ith_output, T, context, st) ==
    LET t == MakeTensor(context, ith_input, TRUE, T.dt)
    IN IF t.error # NoError THEN {Raise(st, ith_input, ith_output, t.error)}
       ELSE LET s == PushBack(st, ith_input, ith_output, t)
            IN {Recurse(s, [arg |-> "tensor", view |-> Len(s.tensors)],
                        ith_input + 1, ith_output)}

\* A faulty optional-tensor overload: an absent optional does not advance ith_input.
CreateTupleOptionalInputTensorNotAdvancing(ith_input, ith_output, T, context, st, num_input) ==
    IF ith_input < num_input
    THEN CreateTupleInputTensor(ith_input, ith_output, T, context, st)
    ELSE {Recurse(Skip(st, ith_input, ith_output), [arg |-> "nullopt"],
                  ith_input, ith_output)}

\* A faulty optional-tensor overload: the optional is always left empty.
CreateTupleOptionalInputTensorAlwaysEmpty(ith_input, ith_output, T, context, st, num_input) ==
    {Recurse(Skip(st, ith_input, ith_output), [arg |-> "nullopt"], ith_input + 1, ith_output)}

\* T = std::optional<const Custom::Tensor<data_type>*>.
CreateTupleOptionalInputTensor(ith_input, ith_output, T, context, st, num_input) ==
    IF ith_input < num_input
    THEN CreateTupleInputTensor(ith_input, ith_output, T, context, st)
    ELSE {Recurse(Skip(st, ith_input, ith_output), [arg |-> "nullopt"],
                  ith_input + 1, ith_output)}

\* A faulty span overload: the execution provider is not checked.
CreateTupleInputSpanAnyProvider(ith_input, ith_output, T, context, st, ep) ==
    LET t == Tensor(context, ith_input, TRUE, T.dt)
    IN IF t.error # NoError THEN {Raise(st, ith_input, ith_output, t.error)}
       ELSE LET s == PushBack(st, ith_input, ith_output, t)
                k == Len(s.tensors)
            IN {LET sa == [s EXCEPT !.tensors[k] = a.self, !.error = a.error]
                IN Recurse(sa, [arg |-> "span", view |-> k], ith_input + 1, ith_output)
                : a \in AsSpan(t.self)}

\* T = const Custom::Span<data_type>* and const Custom::Span<data_type>&.
CreateTupleInputSpan(ith_input, ith_output, T, context, st, ep) ==
    IF CPU # ep
    THEN {Raise(st, ith_input, ith_output,
                Throw(ORT_RUNTIME_EXCEPTION, "span input could only be applied to CPU EP"))}
    ELSE LET t == Tensor(context, ith_input, TRUE, T.dt)
         IN IF t.error # NoError THEN {Raise(st, ith_input, ith_output, t.error)}
            ELSE LET s == PushBack(st, ith_input, ith_output, t)
                     k == Len(s.tensors)
                 IN {LET sa == [s EXCEPT !.tensors[k] = a.self, !.error = a.error]
                     IN Recurse(sa, [arg |-> "span", view |-> k], ith_input + 1, ith_output)
                     : a \in AsSpan(t.self)}

\* T = std::optional<const Custom::Span<data_type>*>.
CreateTupleOptionalInputSpan(ith_input, ith_output, T, context, st, num_input, ep) ==
    IF ith_input < num_input
    THEN CreateTupleInputSpan(ith_input, ith_output, T, context, st, ep)
    ELSE {Recurse(Skip(st, ith_input, ith_output), [arg |-> "nullopt"],
                  ith_input + 1, ith_output)}

\* T = data_type.
CreateTupleInputScalar(ith_input, ith_output, T, context, st, ep) ==
    IF CPU # ep
    THEN {Raise(st, ith_input, ith_output,
                Throw(ORT_RUNTIME_EXCEPTION, "scalar input could only be applied to CPU EP"))}
    ELSE LET t == Tensor(context, ith_input, TRUE, T.dt)
         IN IF t.error # NoError THEN {Raise(st, ith_input, ith_output, t.error)}
            ELSE LET s == PushBack(st, ith_input, ith_output, t)
                     k == Len(s.tensors)
                 IN {LET sa == [s EXCEPT !.tensors[k] = a.self, !.error = a.error]
                     IN Recurse(sa, [arg |-> "scalar", value |-> a.value],
                                ith_input + 1, ith_output)
                     : a \in AsScalar(t.self)}

\* T = std::optional<data_type>.
CreateTupleOptionalInputScalar(ith_input, ith_output, T, context, st, num_input, ep) ==
    IF ith_input < num_input
    THEN CreateTupleInputScalar(ith_input, ith_output, T, context, st, ep)
    ELSE {Recurse(Skip(st, ith_input, ith_output), [arg |-> "nullopt"],
                  ith_input + 1, ith_output)}

\* T = Custom::Tensor<data_type>* and Custom::Tensor<data_type>&.
CreateTupleOutputTensor(ith_input, ith_output, T, context, st) ==
    LET t == MakeTensor(context, ith_output, FALSE, T.dt)
        s == PushBack(st, ith_input, ith_output, t)
    IN {Recurse(s, [arg |-> "tensor", view |-> Len(s.tensors)], ith_input, ith_output + 1)}

\* A faulty optional-output overload: an absent optional does not advance ith_output.
CreateTupleOptionalOutputTensorNotAdvancing(ith_input, ith_output, T, context, st, num_output) ==
    IF ith_output < num_output
    THEN CreateTupleOutputTensor(ith_input, ith_output, T, context, st)
    ELSE {Recurse(Skip(st, ith_input, ith_output), [arg |-> "nullopt"],
                  ith_input, ith_output)}

\* T = std::optional<Custom::Tensor<data_type>*>.
CreateTupleOptionalOutputTensor(ith_input, ith_output, T, context, st, num_output) ==
    IF ith_output < num_output
    THEN CreateTupleOutputTensor(ith_input, ith_output, T, context, st)
    ELSE {Recurse(Skip(st, ith_input, ith_output), [arg |-> "nullopt"],
                  ith_input, ith_output + 1)}

\* The overload std::enable_if selects for T.
Overload(ith_input, ith_output, T, context, st, num_input, num_output, ep) ==
    CASE T.kind = "OrtKernelContext*" ->
           CreateTupleContext(ith_input, ith_output, context, st)
      [] T.kind \in {"const Tensor<T>*", "const Tensor<T>&"} ->
           CreateTupleInputTensor(ith_input, ith_output, T, context, st)
      [] T.kind = "std::optional<const Tensor<T>*>" ->
           CreateTupleOptionalInputTensor(ith_input, ith_output, T, context, st, num_input)
      [] T.kind \in {"const Span<T>*", "const Span<T>&"} ->
           CreateTupleInputSpan(ith_input, ith_output, T, context, st, ep)
      [] T.kind = "std::optional<const Span<T>*>" ->
           CreateTupleOptionalInputSpan(ith_input, ith_output, T, context, st, num_input, ep)
      [] T.kind = "T" ->
           CreateTupleInputScalar(ith_input, ith_output, T, context, st, ep)
      [] T.kind = "std::optional<T>" ->
           CreateTupleOptionalInputScalar(ith_input, ith_output, T, context, st, num_input, ep)
      [] T.kind \in {"Tensor<T>*", "Tensor<T>&"} ->
           CreateTupleOutputTensor(ith_input, ith_output, T, context, st)
      [] T.kind = "std::optional<Tensor<T>*>" ->
           CreateTupleOptionalOutputTensor(ith_input, ith_output, T, context, st, num_output)

\* A faulty CreateTuple that goes on with the rest of the parameters after one
\* of them has failed.
RECURSIVE CreateTupleGoingOn(_, _, _, _, _, _, _, _)
CreateTupleGoingOn(ith_input, ith_output, Ts, context, st, num_input, num_output, ep) ==
    IF Ts = <<>> THEN {st}
    ELSE UNION {
        {IF next.error = NoError THEN [next EXCEPT !.tuple = <<r.current>> \o @] ELSE next
         : next \in CreateTupleGoingOn(r.ith_input, r.ith_output, Tail(Ts), context, r.st,
                                       num_input, num_output, ep)}
        : r \in Overload(ith_input, ith_output, Head(Ts), context, st,
                         num_input, num_output, ep)}

\* CreateTuple<ith_input, ith_output, T, Ts...>: current, then next, then
\* std::tuple_cat(current, next).  An exception leaves no tuple.
RECURSIVE CreateTuple(_, _, _, _, _, _, _, _)
CreateTuple(ith_input, ith_output, Ts, context, st, num_input, num_output, ep) ==
    IF Ts = <<>> THEN {st}
    ELSE UNION {
        IF r.st.error # NoError THEN {r.st}
        ELSE {IF next.error = NoError THEN [next EXCEPT !.tuple = <<r.current>> \o @] ELSE next
              : next \in CreateTuple(r.ith_input, r.ith_output, Tail(Ts), context, r.st,
                                     num_input, num_output, ep)}
        : r \in Overload(ith_input, ith_output, Head(Ts), context, st,
                         num_input, num_output, ep)}

(***************************************************************************)
(* OrtLiteCustomOp::ParseArgs and the descriptor.                          *)
(***************************************************************************)
OnnxType(dt) ==
    CASE dt = "float" -> "ONNX_TENSOR_ELEMENT_DATA_TYPE_FLOAT"
      [] dt = "int32_t" -> "ONNX_TENSOR_ELEMENT_DATA_TYPE_INT32"
      [] dt = "int64_t" -> "ONNX_TENSOR_ELEMENT_DATA_TYPE_INT64"
      [] dt = "std::string" -> "ONNX_TENSOR_ELEMENT_DATA_TYPE_STRING"
      [] dt = "std::string_view" -> "ONNX_TENSOR_ELEMENT_DATA_TYPE_STRING"

\* A faulty ParseArgs: an optional input parameter contributes no type code.
RECURSIVE ParseArgsSkippingOptional(_, _, _)
ParseArgsSkippingOptional(Ts, input_types, output_types) ==
    IF Ts = <<>> THEN [input_types |-> input_types, output_types |-> output_types]
    ELSE LET T == Head(Ts)
         IN CASE T.kind = "OrtKernelContext*" \/ T.kind \in InputKinds \cap OptionalKinds ->
                   ParseArgsSkippingOptional(Tail(Ts), input_types, output_types)
              [] T.kind \in InputKinds \ OptionalKinds ->
                   ParseArgsSkippingOptional(Tail(Ts), Append(input_types, OnnxType(T.dt)),
                                             output_types)
              [] T.kind \in OutputKinds ->
                   ParseArgsSkippingOptional(Tail(Ts), input_types,
                                             Append(output_types, OnnxType(T.dt)))

RECURSIVE ParseArgs(_, _, _)
ParseArgs(Ts, input_types, output_types) ==
    IF Ts = <<>> THEN [input_types |-> input_types, output_types |-> output_types]
    ELSE LET T == Head(Ts)
         IN CASE T.kind = "OrtKernelContext*" ->
                   ParseArgs(Tail(Ts), input_types, output_types)
              [] T.kind \in InputKinds ->
                   ParseArgs(Tail(Ts), Append(input_types, OnnxType(T.dt)), output_types)
              [] T.kind \in OutputKinds ->
                   ParseArgs(Tail(Ts), input_types, Append(output_types, OnnxType(T.dt)))

\* OrtLiteCustomFunc<Args...>::OrtLiteCustomFunc(op_name, execution_provider, compute_fn).
OrtLiteCustomFunc(Args, op_name, execution_provider, compute_fn) ==
    LET parsed == ParseArgs(Args, <<>>, <<>>)
    IN [Args |-> Args,
        op_name_ |-> op_name,
        execution_provider_ |-> execution_provider,
        input_types_ |-> parsed.input_types,
        output_types_ |-> parsed.output_types,
        compute_fn_ |-> compute_fn]

\* The metadata thunks installed by OrtLiteCustomOp's constructor.
GetInputTypeCount(self) == Len(self.input_types_)
GetInputType(self, indice) == self.input_types_[indice + 1]
GetOutputTypeCount(self) == Len(self.output_types_)
GetOutputType(self, indice) == self.output_types_[indice + 1]

(***************************************************************************)
(* The state machine.  The host declares every input and output optional,  *)
(* so a node has at most as many inputs and outputs as the descriptor      *)
(* declares types: the KernelInfo counts and the context's input count     *)
(* range over 0 .. the declared count, each on its own.                    *)
(***************************************************************************)
Idle == [pc |-> "idle", context |-> <<>>, tensors |-> <<>>, tuple |-> <<>>,
         fetched |-> <<>>, trace |-> <<>>, error |-> NoError, called |-> 0,
         requests |-> <<>>, allocs |-> <<>>]

\* History of the Allocate calls on one view: how many were made, how many asked
\* the host, the shape of the latest call, and the shape and buffer of the first
\* call that returned a buffer.
NoAllocs == [calls |-> 0, asked |-> 0, last |-> nullopt, first |-> nullopt, buffer |-> nullptr]

InitWith(lists, providers) ==
    /\ op \in {OrtLiteCustomFunc(Args, "LiteOp", ep, "compute_fn") :
                 Args \in lists, ep \in providers}
    /\ kernel = NoKernel
    /\ inv = Idle
    /\ ret = NoRet

\* The CreateKernel thunk of OrtLiteCustomFunc.
CreateKernel ==
    /\ kernel = NoKernel
    /\ \E num_input \in 0..GetInputTypeCount(op), num_output \in 0..GetOutputTypeCount(op) :
         kernel' = [num_input_ |-> num_input,
                    num_output_ |-> num_output,
                    compute_fn_ |-> op.compute_fn_,
                    ep_ |-> op.execution_provider_]
    /\ UNCHANGED <<op, inv, ret>>

\* The KernelDestroy thunk.
KernelDestroy ==
    /\ kernel # NoKernel
    /\ inv.pc = "idle"
    /\ kernel' = NoKernel
    /\ UNCHANGED <<op, inv, ret>>

\* The KernelCompute thunk, up to the call of the user function: CreateTuple, then
\* std::apply.  An exception from CreateTuple unwinds the thunk: the tensors
\* vector is destroyed and the error goes to the host.
KernelComputeIn(contexts) ==
    /\ kernel # NoKernel
    /\ inv.pc = "idle"
    /\ \E context \in contexts :
       \E t \in CreateTuple(0, 0, op.Args, context, EmptyTuple,
                            kernel.num_input_, kernel.num_output_, kernel.ep_) :
         inv' = IF t.error = NoError
                THEN [pc |-> "user", context |-> context, tensors |-> t.tensors,
                      tuple |-> t.tuple, fetched |-> t.fetched, trace |-> t.trace,
                      error |-> NoError, called |-> 1, requests |-> <<>>,
                      allocs |-> [k \in 1..Len(t.tensors) |-> NoAllocs]]
                ELSE [pc |-> "returned", context |-> context, tensors |-> <<>>,
                      tuple |-> <<>>, fetched |-> t.fetched, trace |-> t.trace,
                      error |-> t.error, called |-> 0, requests |-> <<>>,
                      allocs |-> <<>>]
    /\ ret' = NoRet
    /\ UNCHANGED <<op, kernel>>

KernelCompute == KernelComputeIn(Contexts(GetInputTypeCount(op)))

\* The user function returns: the thunk returns and its locals are destroyed.
UserReturn ==
    /\ inv.pc = "user"
    /\ inv' = [inv EXCEPT !.pc = "returned", !.tensors = <<>>, !.tuple = <<>>,
                          !.allocs = <<>>]
    /\ ret' = NoRet
    /\ UNCHANGED <<op, kernel>>

\* The user function throws: the exception leaves the thunk as it is.
UserThrow ==
    /\ inv.pc = "user"
    /\ inv' = [inv EXCEPT !.pc = "returned", !.tensors = <<>>, !.tuple = <<>>,
                          !.allocs = <<>>,
                          !.error = Throw("ORT_FAIL", "thrown by the user function")]
    /\ ret' = NoRet
    /\ UNCHANGED <<op, kernel>>

\* The host has the status of the invocation and goes on.
HostResume ==
    /\ inv.pc = "returned"
    /\ inv' = Idle
    /\ ret' = NoRet
    /\ UNCHANGED <<op, kernel>>

Init == InitWith(ArgLists(DataTypes, MaxParams), Providers)

Next ==
    \/ CreateKernel
    \/ KernelCompute
    \/ UserReturn
    \/ UserThrow
    \/ HostResume
    \/ KernelDestroy

Spec == Init /\ [][Next]_vars

(***************************************************************************)
(* The user function at work on its arguments.  It holds the tensor        *)
(* arguments only; an input view is const, so Allocate, AsSpan and         *)
(* AsScalar (non-const members) are open to it on output views alone.      *)
(***************************************************************************)
TensorArgs == {inv.tuple[p].view : p \in {q \in 1..Len(inv.tuple) : inv.tuple[q].arg = "tensor"}}
MutableArgs == {k \in TensorArgs : ~inv.tensors[k].is_input_}

Called(call, k, r) == [call |-> call, view |-> k, error |-> r.error, value |-> r.value]

UserShape ==
    /\ inv.pc = "user"
    /\ \E k \in TensorArgs : ret' = Called("Shape", k, Shape(inv.tensors[k]))
    /\ UNCHANGED <<op, kernel, inv>>

UserNumberOfElement ==
    /\ inv.pc = "user"
    /\ \E k \in TensorArgs :
         ret' = Called("NumberOfElement", k,
                       [error |-> NoError, value |-> NumberOfElement(inv.tensors[k])])
    /\ UNCHANGED <<op, kernel, inv>>

UserData ==
    /\ inv.pc = "user"
    /\ \E k \in TensorArgs : \E r \in Data(inv.tensors[k]) : ret' = Called("Data", k, r)
    /\ UNCHANGED <<op, kernel, inv>>

\* The Allocate calls the user function has made so far in this invocation.
RECURSIVE AllocateCalls(_)
AllocateCalls(allocs) ==
    IF allocs = <<>> THEN 0 ELSE Head(allocs).calls + AllocateCalls(Tail(allocs))

UserAllocate ==
    /\ inv.pc = "user"
    /\ AllocateCalls(inv.allocs) < MaxAllocs
    /\ \E k \in MutableArgs, shape \in OutShapes :
         /\ \E r \in Allocate(inv.tensors[k], shape) :
              LET a == inv.allocs[k]
                  isFirst == a.buffer = nullptr /\ r.error = NoError
              IN /\ inv' = [inv EXCEPT
                        !.tensors[k] = r.self,
                        !.requests = @ \o r.calls,
                        !.allocs[k] = [calls |-> a.calls + 1,
                                       asked |-> a.asked + Len(r.calls),
                                       last |-> Some(shape),
                                       first |-> IF isFirst THEN Some(shape) ELSE a.first,
                                       buffer |-> IF isFirst THEN r.value ELSE a.buffer]]
                 /\ ret' = Called("Allocate", k, r)
    /\ UNCHANGED <<op, kernel>>

UserAsSpan ==
    /\ inv.pc = "user"
    /\ \E k \in MutableArgs : \E r \in AsSpan(inv.tensors[k]) :
         /\ inv' = [inv EXCEPT !.tensors[k] = r.self]
         /\ ret' = Called("AsSpan", k, r)
    /\ UNCHANGED <<op, kernel>>

UserAsScalar ==
    /\ inv.pc = "user"
    /\ \E k \in MutableArgs : \E r \in AsScalar(inv.tensors[k]) :
         /\ inv' = [inv EXCEPT !.tensors[k] = r.self]
         /\ ret' = Called("AsScalar", k, r)
    /\ UNCHANGED <<op, kernel>>

\* The view operations never read the provider: the view specification takes the CPU one.
InitView == InitWith(ArgLists(DataTypes, MaxViewParams), {CPU})

NextView ==
    \/ CreateKernel
    \/ KernelCompute
    \/ UserShape
    \/ UserNumberOfElement
    \/ UserData
    \/ UserAllocate
    \/ UserAsSpan
    \/ UserAsScalar
    \/ UserReturn
    \/ UserThrow
    \/ HostResume
    \/ KernelDestroy

SpecView == InitView /\ [][NextView]_vars

(***************************************************************************)
(* The host reads the schema of a registered descriptor.                   *)
(***************************************************************************)
Answer(call, indice, value) ==
    [call |-> call, view |-> indice, error |-> NoError, value |-> value]

HostGetInputTypeCount ==
    /\ ret' = Answer("GetInputTypeCount", 0, GetInputTypeCount(op))
    /\ UNCHANGED <<op, kernel, inv>>

HostGetInputType ==
    /\ \E indice \in 0..(GetInputTypeCount(op) - 1) :
         ret' = Answer("GetInputType", indice, GetInputType(op, indice))
    /\ UNCHANGED <<op, kernel, inv>>

HostGetOutputTypeCount ==
    /\ ret' = Answer("GetOutputTypeCount", 0, GetOutputTypeCount(op))
    /\ UNCHANGED <<op, kernel, inv>>

HostGetOutputType ==
    /\ \E indice \in 0..(GetOutputTypeCount(op) - 1) :
         ret' = Answer("GetOutputType", indice, GetOutputType(op, indice))
    /\ UNCHANGED <<op, kernel, inv>>

\* A faulty GetInputCharacteristic: a parameter declared without std::optional is
\* reported as required.
GetInputCharacteristicAsDeclared(self, indice) ==
    LET inputs == SelectSeq(self.Args, IsInput)
    IN IF indice < Len(inputs) /\ ~IsOptional(inputs[indice + 1])
       THEN "INPUT_OUTPUT_REQUIRED"
       ELSE "INPUT_OUTPUT_OPTIONAL"

\* The remaining metadata thunks installed by OrtLiteCustomOp's constructor:
\* none of them reads the descriptor or the index.
GetInputMemoryType(self, indice) == "OrtMemTypeDefault"
GetInputCharacteristic(self, indice) == "INPUT_OUTPUT_OPTIONAL"
GetOutputCharacteristic(self, indice) == "INPUT_OUTPUT_OPTIONAL"
GetVariadicInputMinArity(self) == 0
GetVariadicInputHomogeneity(self) == 0
GetVariadicOutputMinArity(self) == 0
GetVariadicOutputHomogeneity(self) == 0

\* The host may ask about any index, inside the declared range or beyond it (here
\* the first index beyond).
HostGetInputMemoryType ==
    /\ \E indice \in 0..GetInputTypeCount(op) :
         ret' = Answer("GetInputMemoryType", indice, GetInputMemoryType(op, indice))
    /\ UNCHANGED <<op, kernel, inv>>

HostGetInputCharacteristic ==
    /\ \E indice \in 0..GetInputTypeCount(op) :
         ret' = Answer("GetInputCharacteristic", indice, GetInputCharacteristic(op, indice))
    /\ UNCHANGED <<op, kernel, inv>>

HostGetOutputCharacteristic ==
    /\ \E indice \in 0..GetOutputTypeCount(op) :
         ret' = Answer("GetOutputCharacteristic", indice, GetOutputCharacteristic(op, indice))
    /\ UNCHANGED <<op, kernel, inv>>

HostGetVariadicInputMinArity ==
    /\ ret' = Answer("GetVariadicInputMinArity", 0, GetVariadicInputMinArity(op))
    /\ UNCHANGED <<op, kernel, inv>>

HostGetVariadicInputHomogeneity ==
    /\ ret' = Answer("GetVariadicInputHomogeneity", 0, GetVariadicInputHomogeneity(op))
    /\ UNCHANGED <<op, kernel, inv>>

HostGetVariadicOutputMinArity ==
    /\ ret' = Answer("GetVariadicOutputMinArity", 0, GetVariadicOutputMinArity(op))
    /\ UNCHANGED <<op, kernel, inv>>

HostGetVariadicOutputHomogeneity ==
    /\ ret' = Answer("GetVariadicOutputHomogeneity", 0, GetVariadicOutputHomogeneity(op))
    /\ UNCHANGED <<op, kernel, inv>>

InitSchema == InitWith(ArgLists(SchemaDataTypes, MaxParams), Providers)

NextSchema ==
    \/ HostGetInputTypeCount
    \/ HostGetInputType
    \/ HostGetOutputTypeCount
    \/ HostGetOutputType
    \/ HostGetInputMemoryType
    \/ HostGetInputCharacteristic
    \/ HostGetOutputCharacteristic
    \/ HostGetVariadicInputMinArity
    \/ HostGetVariadicInputHomogeneity
    \/ HostGetVariadicOutputMinArity
    \/ HostGetVariadicOutputHomogeneity

SpecSchema == InitSchema /\ [][NextSchema]_vars

(***************************************************************************)
(* Properties.                                                             *)
(***************************************************************************)
InputParams(Args) == SelectSeq(Args, IsInput)
OutputParams(Args) == SelectSeq(Args, IsOutput)
InputsBefore(p) == Len(InputParams(SubSeq(op.Args, 1, p - 1)))
OutputsBefore(p) == Len(OutputParams(SubSeq(op.Args, 1, p - 1)))
Processed == 1..Len(inv.trace)
\* Tuple construction threw at parameter p.
FailedAt(p) == inv.error # NoError /\ inv.called = 0 /\ p = Len(inv.trace)
\* An input parameter that is required, or optional and below the kernel's recorded count.
Live(p) == ~IsOptional(op.Args[p]) \/ InputsBefore(p) < kernel.num_input_

\* C1 (schema round-trip): the input types the descriptor reports through
\* GetInputTypeCount/GetInputType are the type codes of the input parameters
\* (tensor, span, scalar, required or optional) in source order, the output types
\* those of the output parameters in source order, and a context handle
\* contributes no code.
C1_SchemaRoundTrip ==
    LET ins == InputParams(op.Args)
        outs == OutputParams(op.Args)
        handles == SelectSeq(op.Args, LAMBDA T : T = ContextParam)
    IN /\ GetInputTypeCount(op) = Len(ins)
       /\ \A i \in 0..(Len(ins) - 1) : GetInputType(op, i) = OnnxType(ins[i + 1].dt)
       /\ GetOutputTypeCount(op) = Len(outs)
       /\ \A j \in 0..(Len(outs) - 1) : GetOutputType(op, j) = OnnxType(outs[j + 1].dt)
       /\ GetInputTypeCount(op) + GetOutputTypeCount(op) = Len(op.Args) - Len(handles)
       /\ ret # NoRet =>
            CASE ret.call = "GetInputTypeCount" -> ret.value = Len(ins)
              [] ret.call = "GetInputType" -> ret.value = OnnxType(ins[ret.view + 1].dt)
              [] ret.call = "GetOutputTypeCount" -> ret.value = Len(outs)
              [] ret.call = "GetOutputType" -> ret.value = OnnxType(outs[ret.view + 1].dt)
              [] OTHER -> TRUE

\* The host reads input type 1 of (optional int64 input, float input): the second code.
C1_Witness ==
    /\ Len(op.Args) = MaxParams
    /\ IsInput(op.Args[1]) /\ IsOptional(op.Args[1]) /\ op.Args[1].dt = "int64_t"
    /\ IsInput(op.Args[Len(op.Args)]) /\ op.Args[Len(op.Args)].dt = "float"
    /\ ret # NoRet /\ ret.call = "GetInputType" /\ ret.view = GetInputTypeCount(op) - 1
    /\ ret.value = "ONNX_TENSOR_ELEMENT_DATA_TYPE_FLOAT"

\* C2 (index monotonicity): in every KernelCompute the i-th input parameter in
\* source order (absent optionals counted, handles and outputs not) is bound to
\* host input index i, the j-th output parameter to host output index j, and the
\* host inputs fetched are exactly those of the input parameters given a view.
C2_IndexMonotonicity ==
    /\ \A p \in Processed :
         LET T == op.Args[p]
             e == inv.trace[p]
         IN /\ e.ith_input = InputsBefore(p)
            /\ e.ith_output = OutputsBefore(p)
            /\ (inv.pc = "user" /\ e.view # 0) =>
                 LET view == inv.tensors[e.view]
                 IN /\ view.is_input_ = IsInput(T)
                    /\ IsInput(T) => /\ view.indice_ = InputsBefore(p)
                                     /\ view.const_value_ = GetInput(inv.context, InputsBefore(p))
                    /\ IsOutput(T) => view.indice_ = OutputsBefore(p)
    /\ LET viewed == SelectSeq([p \in Processed |-> p],
                               LAMBDA p : IsInput(op.Args[p]) /\ inv.trace[p].view # 0)
       IN inv.fetched = [n \in 1..Len(viewed) |-> InputsBefore(viewed[n])]

\* The user function runs on (handle, input): the input after the handle is bound to index 0.
C2_Witness ==
    /\ inv.pc = "user"
    /\ Len(op.Args) > 1
    /\ op.Args[1] = ContextParam
    /\ IsInput(op.Args[Len(op.Args)])
    /\ inv.fetched = <<0>>

\* C3 (optional skip): an optional input parameter at input index i with the
\* kernel's recorded input count below i+1 is given no view, fetches no host
\* input and does not fail, the user function receives an empty optional in its
\* slot, and the next input parameter is bound to index i+1.
C3_OptionalSkip ==
    \A p \in Processed :
        LET T == op.Args[p]
            i == InputsBefore(p)
        IN (IsInput(T) /\ IsOptional(T) /\ kernel.num_input_ < i + 1) =>
             /\ inv.trace[p].view = 0
             /\ ~FailedAt(p)
             /\ \A n \in 1..Len(inv.fetched) : inv.fetched[n] # i
             /\ inv.pc = "user" => inv.tuple[p] = [arg |-> "nullopt"]
             /\ \A q \in Processed :
                  (q > p /\ IsInput(op.Args[q]) /\ InputsBefore(q) = i + 1) =>
                      /\ inv.trace[q].ith_input = i + 1
                      /\ (inv.pc = "user" /\ inv.trace[q].view # 0) =>
                             inv.tensors[inv.trace[q].view].indice_ = i + 1

\* The user function runs with an empty optional first and the next input read at index 1.
C3_Witness ==
    /\ inv.pc = "user"
    /\ Len(op.Args) > 1
    /\ IsInput(op.Args[1]) /\ IsOptional(op.Args[1])
    /\ inv.tuple[1] = [arg |-> "nullopt"]
    /\ inv.fetched = <<1>>

\* C4 as stated (EP gating): with a scalar or span parameter in the list and a
\* provider other than CPU, every KernelCompute fails with a RuntimeException
\* and the user function is never called.
C4_EveryInvocationFails ==
    (/\ inv.pc \in {"user", "returned"}
     /\ kernel.ep_ # CPU
     /\ \E p \in 1..Len(op.Args) : IsSpanOrScalar(op.Args[p])) =>
        /\ inv.called = 0
        /\ inv.error # NoError
        /\ inv.error.code = ORT_RUNTIME_EXCEPTION

\* C4 as amended: on a provider other than CPU, tuple construction that reaches
\* a scalar or span parameter which is required, or optional with its index
\* below the kernel's recorded input count, fails there with the
\* RuntimeException of its kind before any view is made for it, and the user
\* function is not called; an optional one at or above the recorded count is
\* passed as an empty optional and raises nothing.
C4_EpGating ==
    \A p \in Processed :
        LET T == op.Args[p]
        IN (IsSpanOrScalar(T) /\ kernel.ep_ # CPU) =>
             IF Live(p)
             THEN /\ FailedAt(p)
                  /\ inv.pc = "returned"
                  /\ inv.trace[p].view = 0
                  /\ inv.error = Throw(ORT_RUNTIME_EXCEPTION,
                                       IF T.kind \in InputSpanKinds
                                       THEN "span input could only be applied to CPU EP"
                                       ELSE "scalar input could only be applied to CPU EP")
             ELSE /\ ~FailedAt(p)
                  /\ inv.pc = "user" => inv.tuple[p] = [arg |-> "nullopt"]

\* A span parameter after a tensor parameter stops the invocation on a provider other than CPU.
C4_Witness ==
    /\ inv.pc = "returned"
    /\ kernel.ep_ # CPU
    /\ Len(inv.trace) > 1
    /\ op.Args[Len(inv.trace)].kind \in InputSpanKinds
    /\ FailedAt(Len(inv.trace))
    /\ inv.error.msg = "span input could only be applied to CPU EP"

\* The buffer the host holds for input i, and the view ret speaks of.
HostInputBuffer(i) == [buffer |-> "input", index |-> i]
RetView == inv.tensors[ret.view]
RetAllocs == inv.allocs[ret.view]
RetIs(call) == ret # NoRet /\ ret.call = call

\* C5 (allocation idempotence), as stated: on an output view, once a first
\* Allocate(s1) has returned a buffer, every further Allocate returns that same
\* pointer whatever its shape, and every later Shape() returns s1.
C5_AllocateIdempotent ==
    /\ (RetIs("Allocate") /\ ret.error = NoError) => ret.value = RetAllocs.buffer
    /\ (RetIs("Shape") /\ ~RetView.is_input_ /\ RetAllocs.first.has_value) =>
           /\ ret.error = NoError
           /\ ret.value = RetAllocs.first

\* C6, as stated: on an output view, once Allocate has returned a buffer, every
\* later Data() returns that buffer.
C6_DataReturnsAllocatedBuffer ==
    (RetIs("Data") /\ ~RetView.is_input_ /\ RetAllocs.buffer # nullptr) =>
        /\ ret.error = NoError
        /\ ret.value = RetAllocs.buffer

\* C7: Shape() fails, with the RuntimeException "tensor shape is not yet
\* initialized", exactly on an output view on which Allocate has not been
\* called; on an input view it returns the shape the host gave at construction,
\* on an output view the shape cached by Allocate.
C7_ShapeInitialized ==
    RetIs("Shape") =>
        /\ ret.error # NoError <=> (~RetView.is_input_ /\ RetAllocs.calls = 0)
        /\ ret.error # NoError =>
             ret.error = Throw(ORT_RUNTIME_EXCEPTION, "tensor shape is not yet initialized")
        /\ RetView.is_input_ => ret.value = Some(inv.context[RetView.indice_ + 1].shape)
        /\ (~RetView.is_input_ /\ RetAllocs.calls > 0) => ret.value = RetAllocs.last

\* Shape() has thrown on a fresh output view.
C7_Witness ==
    /\ RetIs("Shape")
    /\ ~RetView.is_input_
    /\ RetAllocs.calls = 0
    /\ ret.error # NoError

\* C8: when tuple construction makes an input view at index i (a required
\* input, or an optional one with i below the kernel's recorded count) and the
\* context reports fewer than i+1 inputs, KernelCompute fails with
\* InvalidArgument, host input i is not fetched and the user function is not called.
C8_InvalidIndex ==
    \A p \in Processed :
        LET T == op.Args[p]
            i == InputsBefore(p)
        IN (/\ IsInput(T) /\ Live(p)
            /\ IsSpanOrScalar(T) => kernel.ep_ = CPU
            /\ GetInputCount(inv.context) < i + 1) =>
               /\ FailedAt(p)
               /\ inv.pc = "returned"
               /\ inv.error.code = ORT_INVALID_ARGUMENT
               /\ \A n \in 1..Len(inv.fetched) : inv.fetched[n] # i
               /\ inv.called = 0

\* An optional input below the recorded count, after a fetched input, meets a context that lacks it.
C8_Witness ==
    /\ inv.pc = "returned"
    /\ Len(inv.trace) > 1
    /\ IsOptional(op.Args[Len(inv.trace)]) /\ IsInput(op.Args[Len(inv.trace)])
    /\ inv.fetched = <<0>>
    /\ FailedAt(Len(inv.trace))
    /\ inv.error.code = ORT_INVALID_ARGUMENT

\* C9: on the CPU provider a scalar parameter whose view is made receives
\* element 0 of its input tensor when the tensor has shape [1]; for every other
\* shape KernelCompute fails with the RuntimeException "invalid shape while
\* trying to get a scalar ..." and the user function is not called.
C9_ScalarShape ==
    \A p \in Processed :
        LET T == op.Args[p]
            i == InputsBefore(p)
        IN (/\ T.kind \in InputScalarKinds /\ Live(p)
            /\ kernel.ep_ = CPU
            /\ i < GetInputCount(inv.context)) =>
               IF inv.context[i + 1].shape = <<1>>
               THEN /\ ~FailedAt(p)
                    /\ inv.pc = "user" =>
                         inv.tuple[p] = [arg |-> "scalar",
                                         value |-> HostElem(HostInputBuffer(i), 0)]
               ELSE /\ FailedAt(p)
                    /\ inv.pc = "returned"
                    /\ inv.called = 0
                    /\ inv.error =
                         Throw(ORT_RUNTIME_EXCEPTION,
                               "invalid shape while trying to get a scalar from Ort::Custom::Tensor")

\* The user function receives the scalar of its second input, a tensor of shape [1].
C9_Witness ==
    /\ inv.pc = "user"
    /\ Len(inv.tuple) > 1
    /\ inv.tuple[Len(inv.tuple)] = [arg |-> "scalar", value |-> HostElem(HostInputBuffer(1), 0)]

\* C10: AsSpan() fails unless the view has a shape of rank exactly 1; on an
\* input of shape [n] it gives a span of size n whose k-th element is the k-th
\* element of the host buffer, for every k < n.
C10_SpanCoversBuffer ==
    /\ \A p \in Processed :
         LET T == op.Args[p]
             i == InputsBefore(p)
         IN (/\ T.kind \in InputSpanKinds /\ Live(p)
             /\ kernel.ep_ = CPU
             /\ i < GetInputCount(inv.context)) =>
                LET shape == inv.context[i + 1].shape
                IN IF Len(shape) = 1
                   THEN /\ ~FailedAt(p)
                        /\ inv.pc = "user" =>
                             LET span == inv.tensors[inv.tuple[p].view].span_
                             IN /\ inv.tuple[p].arg = "span"
                                /\ SpanSize(span) = shape[1]
                                /\ \A k \in 0..(shape[1] - 1) :
                                     SpanAt(span, k) = HostElem(HostInputBuffer(i), k)
                   ELSE /\ FailedAt(p)
                        /\ inv.error =
                             Throw(ORT_RUNTIME_EXCEPTION,
                                   "invalid shape while trying to get a span out of Ort::Custom::Tensor")
    /\ (RetIs("AsSpan") /\ ret.error = NoError) =>
           RetView.shape_.has_value /\ Len(RetView.shape_.value) = 1

\* The user function holds a span over the two elements of its input.
C10_Witness ==
    /\ inv.pc = "user"
    /\ Len(inv.tuple) > 0
    /\ inv.tuple[1].arg = "span"
    /\ SpanSize(inv.tensors[inv.tuple[1].view].span_) = 2

(***************************************************************************)
(* A string operator: one string or string-view tensor input, one string   *)
(* tensor output.  The user function reads Data() of its input and writes  *)
(* the strings it read to its output with SetStringOutput.                 *)
(***************************************************************************)
StringArgLists ==
    {<<[kind |-> "const Tensor<T>&", dt |-> dt], [kind |-> "Tensor<T>&", dt |-> "std::string"]>> :
       dt \in {"std::string", "std::string_view"}}

InitString == InitWith(StringArgLists, {CPU})

KernelComputeStrings == KernelComputeIn(StringContexts)

\* The strings the user function holds after Data(): std::string(sv) of a view.
AsStrings(self) ==
    IF self.dt = "std::string" THEN self.input_strings_
    ELSE [i \in 1..Len(self.input_string_views_) |->
            ViewBytes(self.chars_, self.input_string_views_[i])]

UserStringData ==
    /\ inv.pc = "user"
    /\ \E k \in TensorArgs :
         ret' = Called("Data", k, [error |-> NoError, value |-> StringData(inv.tensors[k])])
    /\ UNCHANGED <<op, kernel, inv>>

UserSetStringOutput ==
    /\ inv.pc = "user"
    /\ Len(inv.requests) < MaxStringOutputs
    /\ \E k \in MutableArgs, j \in TensorArgs \ MutableArgs, dims \in StringShapes :
       \E r \in SetStringOutput(inv.tensors[k], AsStrings(inv.tensors[j]), dims) :
         /\ inv' = [inv EXCEPT !.tensors[k] = r.self, !.requests = @ \o r.calls]
         /\ ret' = Called("SetStringOutput", k, r)
    /\ UNCHANGED <<op, kernel>>

NextString ==
    \/ CreateKernel
    \/ KernelComputeStrings
    \/ UserStringData
    \/ UserSetStringOutput
    \/ UserReturn
    \/ UserThrow
    \/ HostResume
    \/ KernelDestroy

SpecString == InitString /\ [][NextString]_vars

\* The host's input string tensor of the invocation, and the view made over it.
HostStrings == inv.context[1]
InputStringView == inv.tensors[1]
\* Where string k (from 1) of the host tensor starts in the packed bytes.
RECURSIVE HostOffset(_)
HostOffset(k) ==
    IF k = 1 THEN 0 ELSE HostOffset(k - 1) + Len(HostStrings.strings[k - 1])

\* C11 (string round-trip), as stated: the strings read by Data() on a string
\* tensor input view, written back with SetStringOutput under the dims of the
\* input, leave the host with an output string tensor identical to the input,
\* same dims, same number of elements, same bytes in every element.
C11_StringRoundTrip ==
    (/\ RetIs("SetStringOutput")
     /\ op.Args[1].dt = "std::string"
     /\ inv.requests[Len(inv.requests)].shape = HostStrings.shape
     /\ ret.error = NoError) =>
        ret.value = Some(HostStrings)

\* C12: a string-view input view over a host tensor of N strings packed in C
\* bytes with offsets o has N entries in Data(); entry k is the byte range
\* [o[k], o[k+1]) of the view object's own buffer chars_, with o[N] taken as C;
\* each range lies inside chars_ and shows the bytes of the host's string k.
C12_StringViews ==
    (inv.pc = "user" /\ op.Args[1].dt = "std::string_view") =>
        LET N == Len(HostStrings.strings)
            C == Len(Concat(HostStrings.strings))
            views == StringData(InputStringView)
        IN /\ Len(views) = N
           /\ N = Product(HostStrings.shape)
           /\ \A k \in 1..N :
                LET end == IF k = N THEN C ELSE HostOffset(k + 1)
                IN /\ views[k] = StringView(HostOffset(k), end - HostOffset(k))
                   /\ views[k].offset + views[k].size <= Len(InputStringView.chars_)
                   /\ ViewBytes(InputStringView.chars_, views[k]) = HostStrings.strings[k]

\* Views over two strings, the first of them empty and the second holding a NUL byte.
C12_Witness ==
    /\ inv.pc = "user"
    /\ op.Args[1].dt = "std::string_view"
    /\ Len(HostStrings.strings) = 2
    /\ HostStrings.strings[1] = <<>>
    /\ HostStrings.strings[2] = <<97, NUL>>
    /\ RetIs("Data") /\ ret.view = 1
    /\ ret.value = <<StringView(0, 0), StringView(0, 2)>>

(***************************************************************************)
(* Which parameter types the two template families are instantiated for.   *)
(* A parameter list is handed to ParseArgs<Ts...> and to                   *)
(* CreateTuple<0, 0, Ts...>; a type no overload takes leaves the call      *)
(* ill-formed: there is no program, and no result.                         *)
(***************************************************************************)
TemplateDataTypes == {"float", "std::string", "std::string_view"}

\* CREATE_TUPLE(data_type) for the numeric types and std::string,
\* CREATE_TUPLE_INPUT(std::string_view) alone for std::string_view.
CreateTupleAccepts(T) ==
    \/ T = ContextParam
    \/ /\ T.dt \in TemplateDataTypes
       /\ \/ IsInput(T)
          \/ IsOutput(T) /\ T.dt # "std::string_view"

\* PARSE_ARGS(data_type, onnx_type) for every type, std::string_view included.
ParseArgsAccepts(T) ==
    \/ T = ContextParam
    \/ T.dt \in TemplateDataTypes /\ (IsInput(T) \/ IsOutput(T))

ParseArgsWellFormed(Ts) == \A p \in 1..Len(Ts) : ParseArgsAccepts(Ts[p])
CreateTupleWellFormed(Ts) == \A p \in 1..Len(Ts) : CreateTupleAccepts(Ts[p])

InitTemplate ==
    /\ op \in {[Args |-> Ts] : Ts \in ArgLists(TemplateDataTypes, MaxParams)}
    /\ kernel = NoKernel
    /\ inv = Idle
    /\ ret = NoRet

\* ParseArgs<Ts...>(input_types, output_types) on two empty vectors.
InstantiateParseArgs ==
    /\ ret' = Answer("ParseArgs", 0,
                     IF ParseArgsWellFormed(op.Args)
                     THEN Some(ParseArgs(op.Args, <<>>, <<>>))
                     ELSE nullopt)
    /\ UNCHANGED <<op, kernel, inv>>

\* CreateTuple<0, 0, Ts...>: whether overload resolution succeeds for every parameter.
InstantiateCreateTuple ==
    /\ ret' = Answer("CreateTuple", 0,
                     IF CreateTupleWellFormed(op.Args)
                     THEN Some("well-formed")
                     ELSE nullopt)
    /\ UNCHANGED <<op, kernel, inv>>

NextTemplate ==
    \/ InstantiateParseArgs
    \/ InstantiateCreateTuple

SpecTemplate == InitTemplate /\ [][NextTemplate]_vars

IsStringViewOutput(T) == IsOutput(T) /\ T.dt = "std::string_view"

\* C13, as stated: schema emission and tuple construction accept the same
\* parameter lists, a string-view tensor output is accepted by neither of
\* them, and it never contributes a code to the output type vector.
C13_StringViewOutputRejected ==
    /\ RetIs("ParseArgs") =>
         /\ ret.value.has_value <=> CreateTupleWellFormed(op.Args)
         /\ (\E p \in 1..Len(op.Args) : IsStringViewOutput(op.Args[p])) =>
              ~ret.value.has_value
    /\ RetIs("CreateTuple") =>
         /\ ret.value.has_value <=> ParseArgsWellFormed(op.Args)
         /\ (\E p \in 1..Len(op.Args) : IsStringViewOutput(op.Args[p])) =>
              ~ret.value.has_value

\* C14: whatever the descriptor and whatever the index, inside the declared
\* range or beyond it, GetInputCharacteristic and GetOutputCharacteristic
\* answer Optional, GetInputMemoryType answers Default, and the four variadic
\* hooks answer 0, for parameters declared required as for optional ones.
C14_ConstantMetadata ==
    /\ RetIs("GetInputCharacteristic") => ret.value = "INPUT_OUTPUT_OPTIONAL"
    /\ RetIs("GetOutputCharacteristic") => ret.value = "INPUT_OUTPUT_OPTIONAL"
    /\ RetIs("GetInputMemoryType") => ret.value = "OrtMemTypeDefault"
    /\ (/\ ret # NoRet
        /\ ret.call \in {"GetVariadicInputMinArity", "GetVariadicInputHomogeneity",
                         "GetVariadicOutputMinArity", "GetVariadicOutputHomogeneity"}) =>
           ret.value = 0

\* The host asked about input 0 of a descriptor whose only parameter is a required input.
C14_Witness ==
    /\ RetIs("GetInputCharacteristic")
    /\ Len(op.Args) = 1
    /\ IsInput(op.Args[1]) /\ ~IsOptional(op.Args[1])
    /\ ret.view = 0
    /\ ret.value = "INPUT_OUTPUT_OPTIONAL"

(***************************************************************************)
(* The host at work on one descriptor, a Function-Op or a Struct-Op: it    *)
(* creates kernels, runs KernelCompute on them from several threads at     *)
(* once, each call with a context of its own, and destroys the kernels.    *)
(*                                                                         *)
(* kernel holds the heap of Kernel objects (heap[h]: the object made by    *)
(* the h-th CreateKernel call, h its address), the handles the host holds  *)
(* and those it has passed to KernelDestroy, and for the user-type         *)
(* instance each call may construct how often it was constructed and       *)
(* destroyed.  inv holds one record per KernelCompute      *)
(* call and the set of tensor views alive.                                 *)
(***************************************************************************)
\* OrtLiteCustomStruct<CustomOp>::OrtLiteCustomStruct(op_name, execution_provider):
\* init(&CustomOp::Compute), Args the parameters of Compute.
OrtLiteCustomStruct(Args, op_name, execution_provider) ==
    LET parsed == ParseArgs(Args, <<>>, <<>>)
    IN [Args |-> Args,
        op_name_ |-> op_name,
        execution_provider_ |-> execution_provider,
        input_types_ |-> parsed.input_types,
        output_types_ |-> parsed.output_types,
        CustomOp |-> "CustomOp"]

IsStruct(self) == "CustomOp" \in DOMAIN self

KernelHandles == 1..MaxCreates
Invocations == 1..MaxComputes

\* What the host's KernelInfo answers, and whether the user type's constructor throws.
InputCountFailure == Throw("ORT_FAIL", "host: KernelInfo_GetInputCount failed")
OutputCountFailure == Throw("ORT_FAIL", "host: KernelInfo_GetOutputCount failed")
ConstructorFailure == Throw("ORT_FAIL", "thrown by the user type's constructor")
KernelInfos(self) ==
    [inputs : {[error |-> NoError, value |-> GetInputTypeCount(self)],
               [error |-> InputCountFailure, value |-> 0]},
     outputs : {[error |-> NoError, value |-> GetOutputTypeCount(self)],
                [error |-> OutputCountFailure, value |-> 0]},
     constructor : IF IsStruct(self) THEN {NoError, ConstructorFailure} ELSE {NoError}]

\* Pointers: to the Kernel at address h, and to the user-type instance that the
\* h-th CreateKernel call constructs.
KernelPtr(h) == [kernel |-> h]
CustomOpPtr(h) == [custom_op |-> h]

NoInstance == [constructed |-> 0, destroyed |-> 0]
NoKernels == [heap |-> [h \in KernelHandles |-> NoKernel],
              held |-> {},
              freed |-> {},
              custom_ops |-> [h \in KernelHandles |-> NoInstance],
              created |-> 0]

\* ~Kernel(): a Struct-Op kernel destroys the instance its custom_op_ owns.
DestroyKernel(kern, h) ==
    LET k == kern.heap[h]
    IN [kern EXCEPT !.heap[h] = NoKernel,
                    !.custom_ops =
                       IF "custom_op_" \in DOMAIN k /\ k.custom_op_ # nullptr
                       THEN [@ EXCEPT ![k.custom_op_.custom_op].destroyed = @ + 1]
                       ELSE @]

\* A faulty CreateKernel: the Kernel is held by a plain pointer, and an
\* exception leaves it on the heap.
CreateKernelLeaking(self, kern, h, info) ==
    LET made == [kern EXCEPT !.created = h]
    IN IF IsStruct(self)
       THEN LET k0 == [num_input_ |-> 0, num_output_ |-> 0, custom_op_ |-> nullptr, ep_ |-> ""]
                k2 == [k0 EXCEPT !.num_input_ = info.inputs.value,
                                 !.num_output_ = info.outputs.value]
                k3 == [k2 EXCEPT !.custom_op_ = CustomOpPtr(h), !.ep_ = self.execution_provider_]
            IN CASE info.inputs.error # NoError ->
                      [error |-> info.inputs.error, value |-> nullptr,
                       kern |-> [made EXCEPT !.heap[h] = k0]]
                 [] info.inputs.error = NoError /\ info.outputs.error # NoError ->
                      [error |-> info.outputs.error, value |-> nullptr,
                       kern |-> [made EXCEPT !.heap[h] = k2]]
                 [] info.inputs.error = NoError /\ info.outputs.error = NoError
                    /\ info.constructor # NoError ->
                      [error |-> info.constructor, value |-> nullptr,
                       kern |-> [made EXCEPT !.heap[h] = k2]]
                 [] OTHER ->
                      [error |-> NoError, value |-> KernelPtr(h),
                       kern |-> [made EXCEPT !.heap[h] = k3,
                                             !.custom_ops[h].constructed = @ + 1]]
       ELSE LET k0 == [num_input_ |-> 0, num_output_ |-> 0, compute_fn_ |-> nullptr, ep_ |-> ""]
                k1 == [k0 EXCEPT !.compute_fn_ = self.compute_fn_]
                k3 == [k1 EXCEPT !.num_input_ = info.inputs.value,
                                 !.num_output_ = info.outputs.value,
                                 !.ep_ = self.execution_provider_]
            IN CASE info.inputs.error # NoError ->
                      [error |-> info.inputs.error, value |-> nullptr,
                       kern |-> [made EXCEPT !.heap[h] = k1]]
                 [] info.inputs.error = NoError /\ info.outputs.error # NoError ->
                      [error |-> info.outputs.error, value |-> nullptr,
                       kern |-> [made EXCEPT !.heap[h] = k1]]
                 [] OTHER ->
                      [error |-> NoError, value |-> KernelPtr(h), kern |-> [made EXCEPT !.heap[h] = k3]]

\* The CreateKernel thunks of OrtLiteCustomFunc and of OrtLiteCustomStruct, as
\* the h-th call: std::make_unique<Kernel>() puts the Kernel at address h, the
\* steps fill it, and an exception on the way destroys it as the unique_ptr
\* goes out of scope; kernel.release() hands h to the host.
CreateKernelThunk(self, kern, h, info) ==
    LET made == [kern EXCEPT !.created = h]
    IN IF IsStruct(self)
       THEN LET k0 == [num_input_ |-> 0, num_output_ |-> 0, custom_op_ |-> nullptr, ep_ |-> ""]
                k2 == [k0 EXCEPT !.num_input_ = info.inputs.value,
                                 !.num_output_ = info.outputs.value]
                k3 == [k2 EXCEPT !.custom_op_ = CustomOpPtr(h), !.ep_ = self.execution_provider_]
            IN CASE info.inputs.error # NoError ->
                      [error |-> info.inputs.error, value |-> nullptr,
                       kern |-> DestroyKernel([made EXCEPT !.heap[h] = k0], h)]
                 [] info.inputs.error = NoError /\ info.outputs.error # NoError ->
                      [error |-> info.outputs.error, value |-> nullptr,
                       kern |-> DestroyKernel([made EXCEPT !.heap[h] = k2], h)]
                 [] info.inputs.error = NoError /\ info.outputs.error = NoError
                    /\ info.constructor # NoError ->
                      [error |-> info.constructor, value |-> nullptr,
                       kern |-> DestroyKernel([made EXCEPT !.heap[h] = k2], h)]
                 [] OTHER ->
                      [error |-> NoError, value |-> KernelPtr(h),
                       kern |-> [made EXCEPT !.heap[h] = k3,
                                             !.custom_ops[h].constructed = @ + 1]]
       ELSE LET k0 == [num_input_ |-> 0, num_output_ |-> 0, compute_fn_ |-> nullptr, ep_ |-> ""]
                k1 == [k0 EXCEPT !.compute_fn_ = self.compute_fn_]
                k3 == [k1 EXCEPT !.num_input_ = info.inputs.value,
                                 !.num_output_ = info.outputs.value,
                                 !.ep_ = self.execution_provider_]
            IN CASE info.inputs.error # NoError ->
                      [error |-> info.inputs.error, value |-> nullptr,
                       kern |-> DestroyKernel([made EXCEPT !.heap[h] = k1], h)]
                 [] info.inputs.error = NoError /\ info.outputs.error # NoError ->
                      [error |-> info.outputs.error, value |-> nullptr,
                       kern |-> DestroyKernel([made EXCEPT !.heap[h] = k1], h)]
                 [] OTHER ->
                      [error |-> NoError, value |-> KernelPtr(h), kern |-> [made EXCEPT !.heap[h] = k3]]

\* The KernelDestroy thunks: delete reinterpret_cast<Kernel*>(op_kernel).
KernelDestroyThunk(kern, h) == DestroyKernel(kern, h)

\* One KernelCompute call: the thread's position, the kernel and the context
\* handle the host passed, what the context holds, the thunk's local tensors
\* vector (the addresses of the views it owns) and tuple, and the history of the
\* call: the views it made, the calls of the user function, what the user
\* function threw and the error that left the thunk.
NotStarted == [pc |-> "idle", kernel |-> nullptr, ctx |-> nullptr, context |-> <<>>,
               tensors |-> <<>>, tuple |-> <<>>, callee |-> nullptr, made |-> 0,
               called |-> 0, thrown |-> nullopt, error |-> NoError]

HostShapes == {<<1>>, <<2>>}
HostContexts(n) == UNION {[1..m -> [shape : HostShapes]] : m \in 0..n}
HostArgLists ==
    {<<[kind |-> "const Tensor<T>&", dt |-> "float"], [kind |-> "Tensor<T>&", dt |-> "float"]>>,
     <<[kind |-> "const Tensor<T>&", dt |-> "float"], [kind |-> "T", dt |-> "float"]>>}
UserErrors == {Throw("ORT_FAIL", "thrown by the user function"),
               Throw("ORT_INVALID_ARGUMENT", "thrown by the user function")}

\* A faulty thunk that keeps its tensors vector in static storage: every call
\* works on the views of the first call.
StaticTensors(a, n) == [k \in 1..n |-> [made_by |-> 1, at |-> k]]

\* std::vector<TensorPtr> tensors, a local of the thunk: the views call a made,
\* each at an address of its own.
LocalTensors(a, n) == [k \in 1..n |-> [made_by |-> a, at |-> k]]

\* TensorBase(ctx, indice, is_input): the view at address id keeps the context
\* handle it was made with.
ViewAt(id, ctx, self) == [id |-> id, ctx_ |-> ctx, self |-> self]

\* A faulty thunk that holds its views by plain pointers: they are never destroyed.
TensorsLeaked(views, tensors) == views

\* ~vector<TensorPtr>: the thunk's tensors vector goes out of scope and every
\* view it owns is destroyed.
TensorsDestroyed(views, tensors) ==
    {v \in views : \A k \in 1..Len(tensors) : v.id # tensors[k]}

\* A faulty thunk that catches what the user function throws and returns normally.
UnwindSwallowing(call, error) ==
    [call EXCEPT !.pc = "returned", !.kernel = nullptr, !.ctx = nullptr, !.context = <<>>,
                 !.tensors = <<>>, !.tuple = <<>>]

\* An exception leaves the thunk: there is no handler, so the locals are
\* destroyed and the exception goes to the host as it is.
Unwind(call, error) ==
    [call EXCEPT !.pc = "returned", !.kernel = nullptr, !.ctx = nullptr, !.context = <<>>,
                 !.tensors = <<>>, !.tuple = <<>>, !.error = error]

\* A faulty KernelCompute that calls Compute on an instance of its own.
CalleeFresh(self, k, h) ==
    IF IsStruct(self) THEN [custom_op_ |-> CustomOpPtr(IF h = 1 THEN MaxCreates ELSE 1)]
    ELSE [compute_fn_ |-> k.compute_fn_]

\* What std::apply calls: kernel->compute_fn_, or Compute on kernel->custom_op_.
Callee(self, k, h) ==
    IF IsStruct(self) THEN [custom_op_ |-> k.custom_op_]
    ELSE [compute_fn_ |-> k.compute_fn_]

InitHost ==
    /\ op \in {OrtLiteCustomFunc(Args, "LiteOp", CPU, "compute_fn") : Args \in HostArgLists}
              \cup {OrtLiteCustomStruct(Args, "LiteOp", CPU) : Args \in HostArgLists}
    /\ kernel = NoKernels
    /\ inv = [calls |-> [a \in Invocations |-> NotStarted], views |-> {}]
    /\ ret = NoRet

\* A faulty CreateKernel that moves the provider name out of the descriptor
\* (kernel->ep_ = std::move(self->execution_provider_)).
HostCreateKernelMovingProvider ==
    /\ kernel.created < MaxCreates
    /\ \E info \in KernelInfos(op) :
         LET r == CreateKernelThunk(op, kernel, kernel.created + 1, info)
         IN /\ kernel' = IF r.error = NoError
                         THEN [r.kern EXCEPT !.held = @ \cup {r.value.kernel}]
                         ELSE r.kern
            /\ ret' = [call |-> "CreateKernel", view |-> 0, error |-> r.error, value |-> r.value]
            /\ op' = IF r.error = NoError THEN [op EXCEPT !.execution_provider_ = ""] ELSE op
    /\ UNCHANGED inv

\* The host calls CreateKernel, for the h-th time.
HostCreateKernel ==
    /\ kernel.created < MaxCreates
    /\ \E info \in KernelInfos(op) :
         LET r == CreateKernelThunk(op, kernel, kernel.created + 1, info)
         IN /\ kernel' = IF r.error = NoError
                         THEN [r.kern EXCEPT !.held = @ \cup {r.value.kernel}]
                         ELSE r.kern
            /\ ret' = [call |-> "CreateKernel", view |-> 0, error |-> r.error, value |-> r.value]
    /\ UNCHANGED <<op, inv>>

\* The host calls KernelDestroy on a kernel it holds and no longer runs.
HostKernelDestroy ==
    /\ \E h \in kernel.held :
         /\ \A a \in Invocations : inv.calls[a].pc = "user" => inv.calls[a].kernel # KernelPtr(h)
         /\ kernel' = [KernelDestroyThunk(kernel, h) EXCEPT !.held = @ \ {h}, !.freed = @ \cup {h}]
    /\ UNCHANGED <<op, inv, ret>>

\* A host thread calls KernelCompute on a kernel it holds, with a context of
\* its own: the thunk up to the call of the user function.  The calls are
\* numbered in the order they begin.
HostKernelCompute ==
    \E a \in Invocations, h \in kernel.held, context \in HostContexts(GetInputTypeCount(op)) :
      /\ inv.calls[a].pc = "idle"
      /\ \A b \in 1..(a - 1) : inv.calls[b].pc # "idle"
      /\ LET k == kernel.heap[h]
             ctx == [context |-> a]
         IN \E t \in CreateTuple(0, 0, op.Args, context, EmptyTuple,
                                 k.num_input_, k.num_output_, k.ep_) :
              LET tensors == LocalTensors(a, Len(t.tensors))
                  made == {ViewAt(tensors[n], ctx, t.tensors[n]) : n \in 1..Len(t.tensors)}
                  begun == [NotStarted EXCEPT !.kernel = KernelPtr(h), !.ctx = ctx, !.context = context,
                                              !.tensors = tensors, !.made = Len(t.tensors)]
              IN inv' = IF t.error = NoError
                        THEN [inv EXCEPT
                                !.calls[a] = [begun EXCEPT !.pc = "user", !.tuple = t.tuple,
                                                           !.callee = Callee(op, k, h),
                                                           !.called = @ + 1],
                                !.views = @ \cup made]
                        ELSE [inv EXCEPT
                                !.calls[a] = Unwind(begun, t.error),
                                !.views = TensorsDestroyed(@ \cup made, tensors)]
      /\ UNCHANGED <<op, kernel, ret>>

\* The user function returns: so does the thunk.
HostUserReturn ==
    \E a \in Invocations :
      /\ inv.calls[a].pc = "user"
      /\ inv' = [inv EXCEPT
                   !.calls[a] = [@ EXCEPT !.pc = "returned", !.kernel = nullptr,
                                          !.ctx = nullptr, !.context = <<>>,
                                          !.tensors = <<>>, !.tuple = <<>>],
                   !.views = TensorsDestroyed(@, inv.calls[a].tensors)]
      /\ UNCHANGED <<op, kernel, ret>>

\* A faulty thunk that, when the user function throws, clears the counts of
\* its kernel.
HostUserThrowClearingCounts ==
    \E a \in Invocations, e \in UserErrors :
      /\ inv.calls[a].pc = "user"
      /\ inv' = [inv EXCEPT
                   !.calls[a] = Unwind([@ EXCEPT !.thrown = Some(e)], e),
                   !.views = TensorsDestroyed(@, inv.calls[a].tensors)]
      /\ kernel' = [kernel EXCEPT !.heap[inv.calls[a].kernel.kernel].num_input_ = 0,
                                  !.heap[inv.calls[a].kernel.kernel].num_output_ = 0]
      /\ UNCHANGED <<op, ret>>

\* The user function throws.
HostUserThrow ==
    \E a \in Invocations, e \in UserErrors :
      /\ inv.calls[a].pc = "user"
      /\ inv' = [inv EXCEPT
                   !.calls[a] = Unwind([@ EXCEPT !.thrown = Some(e)], e),
                   !.views = TensorsDestroyed(@, inv.calls[a].tensors)]
      /\ UNCHANGED <<op, kernel, ret>>

NextHost ==
    \/ HostCreateKernel
    \/ HostKernelCompute
    \/ HostUserReturn
    \/ HostUserThrow
    \/ HostKernelDestroy
    \/ HostGetInputTypeCount
    \/ HostGetInputType

SpecHost == InitHost /\ [][NextHost]_vars

\* The tuples CreateTuple can build for a call that is with the user function.
TuplesOf(c) ==
    LET k == kernel.heap[c.kernel.kernel]
    IN CreateTuple(0, 0, op.Args, c.context, EmptyTuple, k.num_input_, k.num_output_, k.ep_)

\* C15: in each KernelCompute invocation the user function (or the struct's
\* Compute method) is called exactly once when tuple construction succeeds and
\* not at all when it fails, never more than once; an error the user function
\* raises leaves KernelCompute as that same error: it is not swallowed, not
\* replaced, and the call is not made again.
C15_UserFunctionCalledOnce ==
    \A a \in Invocations :
      LET c == inv.calls[a]
      IN /\ c.called <= 1
         /\ c.pc = "idle" => c.called = 0
         /\ c.pc = "user" =>
              /\ c.called = 1
              /\ c.thrown = nullopt /\ c.error = NoError
              /\ \E t \in TuplesOf(c) : t.error = NoError /\ t.tuple = c.tuple
         /\ c.pc = "returned" /\ c.called = 0 =>
              c.thrown = nullopt /\ c.error # NoError /\ c.error \notin UserErrors
         /\ c.pc = "returned" /\ c.called = 1 =>
              IF c.thrown = nullopt THEN c.error = NoError ELSE c.thrown = Some(c.error)

C15_Witness ==
    /\ IsStruct(op)
    /\ \E a, b \in Invocations :
         /\ inv.calls[a].pc = "returned" /\ inv.calls[a].called = 1
         /\ inv.calls[a].thrown # nullopt /\ inv.calls[a].thrown = Some(inv.calls[a].error)
         /\ inv.calls[b].pc = "returned" /\ inv.calls[b].called = 0
         /\ inv.calls[b].error # NoError

\* The views alive that call a made, and the views the tuple of a call hands to
\* the user function.
ViewsMadeBy(a) == {v \in inv.views : v.id.made_by = a}
ViewsHanded(c) ==
    {c.tensors[c.tuple[p].view] : p \in {q \in 1..Len(c.tuple) : c.tuple[q].arg = "tensor"}}

\* C16: every tensor view handed to the user function exists for the whole of
\* the user function call, and once KernelCompute has returned, normally or with
\* an error from tuple construction or from the user function, no tensor view
\* that the invocation created exists any longer.
C16_ViewLifetime ==
    \A a \in Invocations :
      LET c == inv.calls[a]
      IN /\ c.pc = "user" =>
              /\ \A id \in ViewsHanded(c) : \E v \in inv.views : v.id = id
              /\ Cardinality(ViewsMadeBy(a)) = c.made
         /\ c.pc = "returned" => ViewsMadeBy(a) = {}

C16_Witness ==
    \E a, b \in Invocations :
      /\ inv.calls[a].pc = "returned" /\ inv.calls[a].made > 0 /\ ViewsMadeBy(a) = {}
      /\ inv.calls[a].error # NoError
      /\ inv.calls[b].pc = "user" /\ ViewsHanded(inv.calls[b]) # {}
      /\ \A id \in ViewsHanded(inv.calls[b]) : \E v \in inv.views : v.id = id

\* C17: for a Struct-Op, each successful CreateKernel constructs exactly one
\* user-type instance; every KernelCompute on that kernel calls Compute on that
\* instance, never on a fresh one or on another kernel's; the instance is
\* destroyed exactly once, when KernelDestroy is called on that kernel, and not
\* before.
C17_OneInstancePerKernel ==
    IsStruct(op) =>
      /\ \A h \in KernelHandles :
           /\ kernel.custom_ops[h].constructed =
                (IF h \in kernel.held \cup kernel.freed THEN 1 ELSE 0)
           /\ kernel.custom_ops[h].destroyed = (IF h \in kernel.freed THEN 1 ELSE 0)
      /\ \A h \in kernel.held : kernel.heap[h].custom_op_ = CustomOpPtr(h)
      /\ \A a \in Invocations :
           inv.calls[a].pc = "user" =>
             /\ inv.calls[a].kernel.kernel \in kernel.held
             /\ inv.calls[a].callee = [custom_op_ |-> CustomOpPtr(inv.calls[a].kernel.kernel)]

C17_Witness ==
    /\ IsStruct(op)
    /\ \E g, h \in KernelHandles :
         /\ g \in kernel.freed /\ kernel.custom_ops[g].destroyed = 1
         /\ h \in kernel.held /\ kernel.custom_ops[h].destroyed = 0
         /\ \A a \in Invocations :
              /\ inv.calls[a].pc = "user"
              /\ inv.calls[a].callee = [custom_op_ |-> CustomOpPtr(h)]

\* The Kernel objects on the heap, and the user-type instances alive.
LiveKernels == {h \in KernelHandles : kernel.heap[h] # NoKernel}
LiveCustomOps ==
    {h \in KernelHandles : kernel.custom_ops[h].constructed > kernel.custom_ops[h].destroyed}

\* C18: if CreateKernel fails at any step (the host's input-count query, the
\* output-count query or, for a Struct-Op, the user type's constructor), the
\* partially built kernel is destroyed before the error leaves the thunk, no
\* kernel pointer is returned, and nothing remains that the host could pass to
\* KernelDestroy: the heap holds the kernels the host holds and no other.
C18_FailedCreateKernelLeavesNothing ==
    /\ LiveKernels = kernel.held
    /\ LiveCustomOps = (IF IsStruct(op) THEN kernel.held ELSE {})
    /\ ret # NoRet /\ ret.call = "CreateKernel" =>
         IF ret.error = NoError
         THEN ret.value = KernelPtr(kernel.created)
         ELSE /\ ret.value = nullptr
              /\ kernel.heap[kernel.created] = NoKernel
              /\ kernel.created \notin kernel.held

C18_Witness ==
    /\ ret # NoRet /\ ret.call = "CreateKernel"
    /\ ret.error \in {InputCountFailure, OutputCountFailure, ConstructorFailure}
    /\ ret.value = nullptr
    /\ kernel.created = MaxCreates
    /\ LiveKernels = kernel.held /\ kernel.held # {}

\* C19: once the descriptor's constructor has returned, no thunk of the
\* descriptor (metadata getters, CreateKernel, KernelCompute, KernelDestroy), in
\* any order and however the host's threads interleave, changes the operator
\* name, the execution-provider name, the input type vector, the output type
\* vector or the stored callable.
C19_DescriptorReadOnly ==
    [][/\ op'.op_name_ = op.op_name_
       /\ op'.execution_provider_ = op.execution_provider_
       /\ op'.input_types_ = op.input_types_
       /\ op'.output_types_ = op.output_types_
       /\ IF IsStruct(op) THEN IsStruct(op') /\ op'.CustomOp = op.CustomOp
          ELSE ~IsStruct(op') /\ op'.compute_fn_ = op.compute_fn_]_vars

\* Every kind of thunk has run, two KernelCompute calls at once among them, and
\* the descriptor is as its constructor left it.
C19_Witness ==
    /\ kernel.freed # {} /\ kernel.held # {}
    /\ ret # NoRet /\ ret.call = "GetInputType"
    /\ \E a, b \in Invocations : inv.calls[a].pc = "user" /\ inv.calls[b].pc = "returned"
    /\ op = (IF IsStruct(op) THEN OrtLiteCustomStruct(op.Args, "LiteOp", CPU)
             ELSE OrtLiteCustomFunc(op.Args, "LiteOp", CPU, "compute_fn"))

\* The view at an address, among the views alive.
ViewOf(id) == CHOOSE v \in inv.views : v.id = id

\* C20: when the host runs several KernelCompute invocations at once on the
\* same kernel with distinct contexts, each invocation builds its own tensor
\* views from its own context, and no view that one invocation created is
\* passed to the user function of another.
C20_ViewsNotShared ==
    \A a \in Invocations :
      inv.calls[a].pc = "user" =>
        LET c == inv.calls[a]
        IN /\ \A id \in ViewsHanded(c) :
                /\ id.made_by = a
                /\ \E v \in inv.views : v.id = id
                /\ ViewOf(id).ctx_ = c.ctx
                /\ ViewOf(id).self.is_input_ =>
                     ViewOf(id).self.shape_ = Some(c.context[ViewOf(id).self.indice_ + 1].shape)
           /\ \A b \in Invocations \ {a} :
                inv.calls[b].pc = "user" =>
                  /\ c.ctx # inv.calls[b].ctx
                  /\ ViewsHanded(c) \cap ViewsHanded(inv.calls[b]) = {}

C20_Witness ==
    \E a, b \in Invocations :
      /\ a # b
      /\ inv.calls[a].pc = "user" /\ inv.calls[b].pc = "user"
      /\ inv.calls[a].kernel = inv.calls[b].kernel
      /\ inv.calls[a].context # inv.calls[b].context
      /\ ViewsHanded(inv.calls[a]) # {} /\ ViewsHanded(inv.calls[b]) # {}
      /\ ViewsHanded(inv.calls[a]) \cap ViewsHanded(inv.calls[b]) = {}

(***************************************************************************)
(* The function (const Tensor<int32_t>& a, std::optional<const             *)
(* Tensor<int32_t>*> b, Tensor<int32_t>& out) on the CPU provider, through *)
(* the lifecycle of Spec.                                                  *)
(***************************************************************************)
OptionalInputArgs ==
    <<[kind |-> "const Tensor<T>&", dt |-> "int32_t"],
      [kind |-> "std::optional<const Tensor<T>*>", dt |-> "int32_t"],
      [kind |-> "Tensor<T>&", dt |-> "int32_t"]>>

InitOptionalInput == InitWith({OptionalInputArgs}, {CPU})

SpecOptionalInput == InitOptionalInput /\ [][Next]_vars

\* The view a tuple element refers to.
ArgView(p) == inv.tensors[inv.tuple[p].view]

\* a is bound to input index 0 and out to output index 0.
BoundFirst ==
    /\ inv.tuple[1].arg = "tensor"
    /\ ArgView(1).is_input_ /\ ArgView(1).indice_ = 0
    /\ inv.tuple[3].arg = "tensor"
    /\ ~ArgView(3).is_input_ /\ ArgView(3).indice_ = 0

\* C21 as stated: for (required int32 input tensor a, optional int32 input
\* tensor b, int32 output tensor out) on the CPU provider, when the host
\* supplies two inputs the user function receives b as an empty optional, with
\* a bound to input index 0 and out to output index 0.
C21_OptionalInputEmpty ==
    (inv.pc = "user" /\ kernel.num_input_ = 2 /\ GetInputCount(inv.context) = 2) =>
        /\ inv.tuple[2] = [arg |-> "nullopt"]
        /\ BoundFirst

\* C21, amended: b is an empty optional exactly when the kernel's recorded
\* input count is below two; when the host supplies two inputs b is a view on
\* input index 1.  Either way a is bound to input index 0 and out to output
\* index 0.
C21_OptionalInputByCount ==
    inv.pc = "user" =>
        /\ BoundFirst
        /\ IF kernel.num_input_ < 2
           THEN inv.tuple[2] = [arg |-> "nullopt"] /\ inv.fetched = <<0>>
           ELSE /\ inv.tuple[2].arg = "tensor"
                /\ ArgView(2).is_input_ /\ ArgView(2).indice_ = 1
                /\ ArgView(2).shape_ = Some(inv.context[2].shape)
                /\ inv.fetched = <<0, 1>>

\* Two inputs supplied and recorded: the user function runs with b a view on input 1.
C21_Witness ==
    /\ inv.pc = "user" /\ kernel.num_input_ = 2 /\ GetInputCount(inv.context) = 2
    /\ inv.tuple[2].arg = "tensor" /\ ArgView(2).indice_ = 1
    /\ BoundFirst

(***************************************************************************)
(* A function with an optional output followed by a required output, its   *)
(* user function at work on the views as in SpecView.                      *)
(***************************************************************************)
OptionalOutputArgs ==
    <<[kind |-> "std::optional<Tensor<T>*>", dt |-> "float"],
      [kind |-> "Tensor<T>&", dt |-> "float"]>>

InitOptionalOutput == InitWith({OptionalOutputArgs}, {CPU})

SpecOptionalOutput == InitOptionalOutput /\ [][NextView]_vars

\* C22: an optional output parameter at output index j, with the kernel's
\* recorded number of outputs below j+1, gives the user function an empty
\* optional in its slot; no output view is constructed and no host output is
\* requested for index j; the following output parameter is bound to index j+1.
C22_OptionalOutputSkip ==
    \A p \in Processed :
        LET T == op.Args[p]
            j == OutputsBefore(p)
        IN (IsOutput(T) /\ IsOptional(T) /\ kernel.num_output_ < j + 1) =>
             /\ inv.trace[p].view = 0
             /\ ~FailedAt(p)
             /\ inv.pc = "user" =>
                  /\ inv.tuple[p] = [arg |-> "nullopt"]
                  /\ \A k \in 1..Len(inv.tensors) :
                       ~inv.tensors[k].is_input_ => inv.tensors[k].indice_ # j
             /\ \A n \in 1..Len(inv.requests) : inv.requests[n].indice # j
             /\ \A q \in Processed :
                  (q > p /\ IsOutput(op.Args[q]) /\ OutputsBefore(q) = j + 1) =>
                      /\ inv.trace[q].ith_output = j + 1
                      /\ (inv.pc = "user" /\ inv.trace[q].view # 0) =>
                             inv.tensors[inv.trace[q].view].indice_ = j + 1

\* The optional output is absent and the user function has asked the host for
\* the following output, at index 1.
C22_Witness ==
    /\ inv.pc = "user"
    /\ kernel.num_output_ = 0
    /\ inv.tuple[1] = [arg |-> "nullopt"]
    /\ inv.tuple[2].arg = "tensor" /\ ArgView(2).indice_ = 1
    /\ Len(inv.requests) > 0
    /\ \A n \in 1..Len(inv.requests) : inv.requests[n].indice = 1

\* The requests the host has received in this invocation for output index j.
RequestsFor(j) == SelectSeq(inv.requests, LAMBDA r : r.indice = j)

\* C23 as stated: constructing an output view makes no host call; within one
\* KernelCompute the host is asked to materialize output index j by a numeric
\* output view only when the user function calls Allocate on it, at most once
\* per view however many times Allocate is called, and never if the user
\* function does not call Allocate.
C23_OutputRequestedOnce ==
    inv.pc = "user" =>
      \A k \in 1..Len(inv.tensors) :
        ~inv.tensors[k].is_input_ =>
          LET j == inv.tensors[k].indice_
          IN /\ Len(RequestsFor(j)) = inv.allocs[k].asked
             /\ inv.allocs[k].asked <= inv.allocs[k].calls
             /\ inv.allocs[k].calls = 0 => RequestsFor(j) = <<>>
             /\ inv.allocs[k].asked <= 1

\* The requests for output index j among those of an invocation record.
RequestsIn(i, j) == SelectSeq(i.requests, LAMBDA r : r.indice = j)

\* C23, amended: constructing an output view makes no host call; the host is
\* asked to materialize output index j only inside a call of Allocate on the
\* view of index j, once per such call at most, and never without one; once a
\* request has given the view its buffer no later Allocate asks again, while
\* after a request the host failed the next Allocate asks anew.
C23_OutputRequestedUntilServed ==
    [][/\ (inv.pc # "user" /\ inv'.pc = "user") => inv'.requests = <<>>
       /\ (inv.pc = "user" /\ inv'.pc = "user") =>
            \A k \in 1..Len(inv.tensors) :
              ~inv.tensors[k].is_input_ =>
                LET j == inv.tensors[k].indice_
                    before == RequestsIn(inv, j)
                    after == RequestsIn(inv', j)
                IN /\ Len(after) = inv'.allocs[k].asked
                   /\ inv'.allocs[k].asked <= inv'.allocs[k].calls
                   /\ Len(after) <= Len(before) + 1
                   /\ after # before =>
                        /\ ret'.call = "Allocate" /\ ret'.view = k
                        /\ inv'.allocs[k].calls = inv.allocs[k].calls + 1
                        /\ inv.tensors[k].data_ = nullptr
                   /\ (inv.tensors[k].data_ = nullptr /\ inv'.allocs[k].calls # inv.allocs[k].calls)
                        => Len(after) = Len(before) + 1]_vars

\* Allocate was called twice on an output view and the host was asked once.
C23_Witness ==
    /\ inv.pc = "user"
    /\ \E k \in 1..Len(inv.tensors) :
         /\ ~inv.tensors[k].is_input_
         /\ inv.allocs[k].calls = 2 /\ inv.allocs[k].asked = 1
         /\ inv.allocs[k].buffer # nullptr
         /\ Len(RequestsFor(inv.tensors[k].indice_)) = 1

\* The Kernel as CreateKernel leaves it: the host's counts, the descriptor's
\* provider name and, for a Function-Op, the descriptor's callable.
AsCreated(k) ==
    /\ k.num_input_ = GetInputTypeCount(op)
    /\ k.num_output_ = GetOutputTypeCount(op)
    /\ k.ep_ = op.execution_provider_
    /\ IF IsStruct(op) THEN "compute_fn_" \notin DOMAIN k
       ELSE k.compute_fn_ = op.compute_fn_

\* C24: a kernel's recorded input count, output count and provider name are set
\* once, in CreateKernel, to the host's KernelInfo counts and the descriptor's
\* provider name (for a Function-Op its callable to the descriptor's callable),
\* and no KernelCompute invocation, successful or failing, changes any of them:
\* whatever invocations have begun, run or ended, every kernel the host holds
\* has the values CreateKernel gave it.
C24_KernelFieldsSetOnce ==
    \A h \in kernel.held :
      /\ AsCreated(kernel.heap[h])
      /\ \A a \in Invocations :
           (inv.calls[a].pc = "user" /\ inv.calls[a].kernel = KernelPtr(h)) =>
             inv.calls[a].callee = Callee(op, kernel.heap[h], h)

\* A kernel has served an invocation that failed in tuple construction or in
\* the user function and one that succeeded, and is as CreateKernel left it.
C24_Witness ==
    /\ kernel.held # {}
    /\ \A h \in kernel.held : AsCreated(kernel.heap[h])
    /\ \E a, b \in Invocations :
         /\ inv.calls[a].pc = "returned" /\ inv.calls[a].error # NoError
         /\ inv.calls[b].pc = "returned" /\ inv.calls[b].error = NoError
         /\ inv.calls[b].called = 1

\* What the overload of parameter p does on its own with the indices of its
\* position, and whether it throws.
Alone(p) ==
    Overload(InputsBefore(p), OutputsBefore(p), op.Args[p], inv.context, EmptyTuple,
             kernel.num_input_, kernel.num_output_, kernel.ep_)
Fails(p) == \E r \in Alone(p) : r.st.error # NoError

\* C25: tuple construction processes the parameters strictly in source order:
\* host inputs are fetched in increasing index order, and when the parameter at
\* position k fails (invalid index, EP gating, invalid scalar or span shape) the
\* error reported is that of the earliest failing parameter, no view is made and
\* no host input is fetched for a parameter after position k, and the views
\* built for the positions before k are destroyed.
C25_SourceOrder ==
    inv.pc \in {"user", "returned"} =>
      /\ \A p \in Processed :
           /\ p <= Len(op.Args)
           /\ inv.trace[p].ith_input = InputsBefore(p)
           /\ inv.trace[p].ith_output = OutputsBefore(p)
      /\ \A m, n \in 1..Len(inv.fetched) : m < n => inv.fetched[m] < inv.fetched[n]
      /\ inv.called = 1 =>
           /\ Len(inv.trace) = Len(op.Args)
           /\ \A p \in Processed : ~Fails(p)
      /\ inv.called = 0 =>
           LET k == Len(inv.trace)
           IN /\ k \in 1..Len(op.Args)
              /\ inv.pc = "returned"
              /\ Fails(k)
              /\ \A r \in Alone(k) : inv.error = r.st.error
              /\ \A p \in 1..(k - 1) : ~Fails(p)
              /\ \A q \in (k + 1)..Len(op.Args) :
                   IsInput(op.Args[q]) =>
                     \A n \in 1..Len(inv.fetched) : inv.fetched[n] # InputsBefore(q)
              /\ \A n \in 1..Len(inv.fetched) :
                   \E p \in 1..k : IsInput(op.Args[p]) /\ inv.fetched[n] = InputsBefore(p)
              /\ inv.tensors = <<>> /\ inv.tuple = <<>>

\* Both parameters would fail: the error is that of the first, and the second
\* was not reached.
C25_Witness ==
    /\ inv.pc = "returned" /\ inv.called = 0
    /\ Len(op.Args) = 2 /\ Len(inv.trace) = 1
    /\ Fails(1) /\ Fails(2)
    /\ \A r \in Alone(1) : inv.error = r.st.error
    /\ \E r \in Alone(1), t \in Alone(2) : r.st.error # t.st.error
    /\ inv.tensors = <<>>

====
